---- MODULE Spec2Model ----
(***************************************************************************)
(* A model of the storage engine of mcp-tools                              *)
(* (src/src/context_manager/storage.py, src/src/models.py): the two SQLite *)
(* tables, the operations of ContextStorage on them, and the conversions   *)
(* between pydantic records and stored rows.                               *)
(*                                                                         *)
(* Text is a sequence of one-character strings, so that join/split, JSON   *)
(* encoding and the comparison of stored timestamps work on characters, as *)
(* the code does.  Python None and SQL NULL are the value NULL.  A result  *)
(* that may be absent (T | None) is a sequence of length 0 or 1.           *)
(***************************************************************************)
EXTENDS Integers, Sequences, FiniteSets, TLC

\* ------------------------------------------------------------------ bounds

\* The most rows table contexts holds in the state machines.
MaxRows == 2
\* The number of todo-snapshot ids the processes use.
NumSnapIds == 2
\* The largest limit and offset a listing is called with.
MaxLimit == 2

\* ------------------------------------------------------------------- text

NULL == <<"<NULL>">>
\* A conversion or an operation that can raise an exception returns
\* [ok |-> TRUE, v |-> value], or Fail when it raised.
Fail == [ok |-> FALSE]
Ok(v) == [ok |-> TRUE, v |-> v]

\* Python truthiness of a str | None value: `if x:`.
Truthy(x) == x # NULL /\ x # <<>>

\* The characters of the model in code-point order (the order of SQLite's
\* BINARY collation, which compares TEXT bytewise).
CodePoints == <<" ", "\"", "%", "+", ",", "-", ".", "/",
                "0", "1", "2", "3", "4", "5", "6", "7", "8", "9", ":",
                "A", "F", "T", "[", "\\", "]", "_",
                "a", "b", "c", "d", "e", "g", "i", "k", "l", "m", "n", "o",
                "p", "r", "s", "t", "u", "v", "x", "{", "}">>

CharCode(c) == CHOOSE i \in 1..Len(CodePoints) : CodePoints[i] = c

RECURSIVE TextLess(_, _)
\* a < b for two TEXT values under BINARY collation (memcmp, then length).
TextLess(a, b) ==
    IF b = <<>> THEN FALSE
    ELSE IF a = <<>> THEN TRUE
    ELSE IF a[1] # b[1] THEN CharCode(a[1]) < CharCode(b[1])
    ELSE TextLess(Tail(a), Tail(b))

RECURSIVE Flatten(_, _)
\* sep.join(parts) of Python: the parts with sep between neighbours.
Flatten(parts, sep) ==
    IF parts = <<>> THEN <<>>
    ELSE IF Len(parts) = 1 THEN parts[1]
    ELSE parts[1] \o sep \o Flatten(Tail(parts), sep)

RECURSIVE SplitFrom(_, _, _, _)
SplitFrom(text, sep, i, cur) ==
    IF i > Len(text) THEN <<cur>>
    ELSE IF text[i] = sep THEN <<cur>> \o SplitFrom(text, sep, i + 1, <<>>)
    ELSE SplitFrom(text, sep, i + 1, Append(cur, text[i]))

\* text.split(sep) of Python for a one-character sep: "".split(",") is [""].
Split(text, sep) == SplitFrom(text, sep, 1, <<>>)

\* ------------------------------------------------------------- timestamps

\* A datetime is <<h, us>> when it is naive and <<h, us, off>> when it is
\* aware: h the one digit of the wall-clock time that varies (the hour; the
\* date and the other digits are text of fixed width that all values share), us
\* the fraction digit of the second, off the UTC offset in hours.
Digits == <<"0", "1", "2", "3", "4", "5", "6", "7", "8", "9">>
IsDigit(c) == \E i \in 1..Len(Digits) : Digits[i] = c
DigitVal(c) == (CHOOSE i \in 1..Len(Digits) : Digits[i] = c) - 1

\* datetime.isoformat(): the fraction is written only when it is not zero, the
\* offset only for an aware value, with its sign.
isoformat(ts) ==
    <<Digits[ts[1] + 1]>> \o
    (IF ts[2] = 0 THEN <<>> ELSE <<".", Digits[ts[2] + 1]>>) \o
    (IF Len(ts) = 2 THEN <<>>
     ELSE IF ts[3] < 0 THEN <<"-", Digits[1 - ts[3]]>>
     ELSE <<"+", Digits[ts[3] + 1]>>)

\* datetime.fromisoformat(text); it raises when text has none of the forms.
fromisoformat(text) ==
    LET n == Len(text)
        frac == n >= 3 /\ text[2] = "."
        m == IF frac THEN 3 ELSE 1
    IN  IF n = 0 THEN Fail
        ELSE IF ~IsDigit(text[1]) THEN Fail
        ELSE IF frac /\ ~IsDigit(text[3]) THEN Fail
        ELSE LET h == DigitVal(text[1])
                 us == IF frac THEN DigitVal(text[3]) ELSE 0
             IN  IF n = m THEN Ok(<<h, us>>)
                 ELSE IF n = m + 2 /\ IsDigit(text[n])
                      THEN IF text[m + 1] = "+" THEN Ok(<<h, us, DigitVal(text[n])>>)
                           ELSE IF text[m + 1] = "-"
                           THEN Ok(<<h, us, 0 - DigitVal(text[n])>>)
                           ELSE Fail
                 ELSE Fail

\* ------------------------------------------------------------------- JSON

\* JSON values: null, a string, a list, an object (pairs in insertion order).
JNull == [t |-> "null"]
JStr(s) == [t |-> "str", v |-> s]
JList(xs) == [t |-> "list", v |-> xs]
JObj(pairs) == [t |-> "obj", v |-> pairs]
JOpt(s) == IF s = NULL THEN JNull ELSE JStr(s)

RECURSIVE Escape(_)
\* The body of a JSON string: quote and backslash are escaped.
Escape(s) ==
    IF s = <<>> THEN <<>>
    ELSE (IF s[1] = "\"" \/ s[1] = "\\" THEN <<"\\", s[1]>> ELSE <<s[1]>>)
         \o Escape(Tail(s))

Quote(s) == <<"\"">> \o Escape(s) \o <<"\"">>

RECURSIVE Dumps(_, _)
\* The JSON text of j.  spaced: json.dumps separators (", " and ": ");
\* otherwise the compact separators of pydantic's model_dump_json.
Dumps(j, spaced) ==
    LET isep == IF spaced THEN <<",", " ">> ELSE <<",">>
        ksep == IF spaced THEN <<":", " ">> ELSE <<":">>
    IN  CASE j.t = "null" -> <<"n", "u", "l", "l">>
          [] j.t = "str"  -> Quote(j.v)
          [] j.t = "list" ->
                <<"[">> \o
                Flatten([i \in 1..Len(j.v) |-> Dumps(j.v[i], spaced)], isep)
                \o <<"]">>
          [] j.t = "obj"  ->
                <<"{">> \o
                Flatten([i \in 1..Len(j.v) |->
                           Quote(j.v[i].k) \o ksep \o Dumps(j.v[i].v, spaced)],
                        isep)
                \o <<"}">>

RECURSIVE SkipWs(_, _)
SkipWs(t, i) == IF i <= Len(t) /\ t[i] = " " THEN SkipWs(t, i + 1) ELSE i

RECURSIVE ScanStr(_, _, _)
\* The string whose opening quote precedes position i.
ScanStr(t, i, acc) ==
    IF i > Len(t) THEN Fail
    ELSE IF t[i] = "\"" THEN [ok |-> TRUE, v |-> JStr(acc), n |-> i + 1]
    ELSE IF t[i] = "\\"
         THEN IF i + 1 <= Len(t) /\ (t[i + 1] = "\"" \/ t[i + 1] = "\\")
              THEN ScanStr(t, i + 2, Append(acc, t[i + 1]))
              ELSE Fail
    ELSE ScanStr(t, i + 1, Append(acc, t[i]))

RECURSIVE ParseValue(_, _)
RECURSIVE ParseItems(_, _, _)
RECURSIVE ParseMembers(_, _, _)

\* The JSON value that starts at position i (after white space).
ParseValue(t, i0) ==
    LET i == SkipWs(t, i0)
    IN  IF i > Len(t) THEN Fail
        ELSE IF t[i] = "\"" THEN ScanStr(t, i + 1, <<>>)
        ELSE IF t[i] = "n"
             THEN IF i + 3 <= Len(t) /\ SubSeq(t, i, i + 3) = <<"n", "u", "l", "l">>
                  THEN [ok |-> TRUE, v |-> JNull, n |-> i + 4]
                  ELSE Fail
        ELSE IF t[i] = "["
             THEN LET j == SkipWs(t, i + 1)
                  IN  IF j <= Len(t) /\ t[j] = "]"
                      THEN [ok |-> TRUE, v |-> JList(<<>>), n |-> j + 1]
                      ELSE ParseItems(t, i + 1, <<>>)
        ELSE IF t[i] = "{"
             THEN LET j == SkipWs(t, i + 1)
                  IN  IF j <= Len(t) /\ t[j] = "}"
                      THEN [ok |-> TRUE, v |-> JObj(<<>>), n |-> j + 1]
                      ELSE ParseMembers(t, i + 1, <<>>)
        ELSE Fail

\* The items of a list, from the item that starts at i, up to the "]".
ParseItems(t, i, acc) ==
    LET r == ParseValue(t, i)
    IN  IF ~r.ok THEN Fail
        ELSE LET j == SkipWs(t, r.n)
             IN  IF j > Len(t) THEN Fail
                 ELSE IF t[j] = "," THEN ParseItems(t, j + 1, Append(acc, r.v))
                 ELSE IF t[j] = "]"
                      THEN [ok |-> TRUE, v |-> JList(Append(acc, r.v)), n |-> j + 1]
                 ELSE Fail

\* The members of an object, from the key that starts at i, up to the "}".
ParseMembers(t, i, acc) ==
    LET k == ParseValue(t, i)
    IN  IF ~k.ok \/ (k.ok /\ k.v.t # "str") THEN Fail
        ELSE LET c == SkipWs(t, k.n)
             IN  IF c > Len(t) \/ (c <= Len(t) /\ t[c] # ":") THEN Fail
                 ELSE LET r == ParseValue(t, c + 1)
                      IN  IF ~r.ok THEN Fail
                          ELSE LET j == SkipWs(t, r.n)
                                   m == Append(acc, [k |-> k.v.v, v |-> r.v])
                               IN  IF j > Len(t) THEN Fail
                                   ELSE IF t[j] = "," THEN ParseMembers(t, j + 1, m)
                                   ELSE IF t[j] = "}"
                                        THEN [ok |-> TRUE, v |-> JObj(m), n |-> j + 1]
                                   ELSE Fail

\* json.loads(text); it raises when text is not one JSON value.
Loads(text) ==
    LET Whole(r) == IF r.ok /\ SkipWs(text, r.n) > Len(text) THEN Ok(r.v) ELSE Fail
    IN  IF text = NULL THEN Fail ELSE Whole(ParseValue(text, 1))

\* ------------------------------------------------- records and stored rows

\* Field names (JSON keys) of the pydantic models (src/src/models.py).
K_messages == <<"m", "e", "s", "s", "a", "g", "e", "s">>
K_code == <<"c", "o", "d", "e">>
K_suggestions == <<"s", "u", "g", "g", "e", "s", "t", "i", "o", "n", "s">>
K_errors == <<"e", "r", "r", "o", "r", "s">>
K_content == <<"c", "o", "n", "t", "e", "n", "t">>
K_status == <<"s", "t", "a", "t", "u", "s">>
K_activeForm == <<"a", "c", "t", "i", "v", "e", "F", "o", "r", "m">>

\* d[key] of a Python dict read from JSON (the last member with the key), or
\* the default when the key is absent.
Lookup(pairs, key, default) ==
    LET hits == {i \in 1..Len(pairs) : pairs[i].k = key}
    IN  IF hits = {} THEN default
        ELSE pairs[CHOOSE i \in hits : \A j \in hits : j <= i].v

HasKey(pairs, key) == \E i \in 1..Len(pairs) : pairs[i].k = key

IsJStr(j) == j.t = "str"
IsJOptStr(j) == j.t = "null" \/ j.t = "str"
IsJOptStrList(j) ==
    j.t = "null" \/ (j.t = "list" /\ \A i \in 1..Len(j.v) : IsJStr(j.v[i]))
IsJOptStrDict(j) ==
    j.t = "null" \/ (j.t = "obj" /\ \A i \in 1..Len(j.v) : IsJStr(j.v[i].v))

\* A ContextContent is [messages, code, suggestions, errors]; each slot holds
\* None (JNull) or its value: a list of strings (JList), a dict of strings
\* (JObj), a string (JStr).
\* ContextContent.model_dump_json()
content_dump_json(c) ==
    Dumps(JObj(<<[k |-> K_messages, v |-> c.messages],
                 [k |-> K_code, v |-> c.code],
                 [k |-> K_suggestions, v |-> c.suggestions],
                 [k |-> K_errors, v |-> c.errors]>>), FALSE)

\* ContextContent.model_validate_json(text): absent slots default to None, a
\* slot of the wrong type raises.
content_validate_json(text) ==
    LET Validate(c) ==
            IF /\ IsJOptStrList(c.messages)
               /\ IsJOptStrDict(c.code)
               /\ IsJOptStr(c.suggestions)
               /\ IsJOptStr(c.errors)
            THEN Ok(c)
            ELSE Fail
        Model(r) ==
            IF ~r.ok THEN Fail
            ELSE IF r.v.t # "obj" THEN Fail
            ELSE Validate([messages |-> Lookup(r.v.v, K_messages, JNull),
                           code |-> Lookup(r.v.v, K_code, JNull),
                           suggestions |-> Lookup(r.v.v, K_suggestions, JNull),
                           errors |-> Lookup(r.v.v, K_errors, JNull)])
    IN  Model(Loads(text))

\* The row save_context binds for a ContextEntry.
ContextRow(e) ==
    [id |-> e.id,
     timestamp |-> isoformat(e.timestamp),
     type |-> e.type,
     title |-> e.title,
     content |-> content_dump_json(e.content),
     tags |-> Flatten(e.tags, <<",">>),
     project_path |-> e.project_path,
     session_id |-> e.session_id,
     session_timestamp |->
        IF e.session_timestamp # NULL THEN isoformat(e.session_timestamp) ELSE NULL,
     metadata |-> Dumps(e.metadata, TRUE),
     chatgpt_response |-> e.chatgpt_response,
     claude_response |-> e.claude_response]

\* _row_to_context(row): the ContextEntry of a row; it raises when a stored
\* text cannot be parsed.
row_to_context(row) ==
    LET Entry(ts, content, sts, meta) ==
            IF ~ts.ok \/ ~content.ok \/ ~sts.ok \/ ~meta.ok THEN Fail
            ELSE IF meta.v.t # "obj" THEN Fail
            ELSE Ok([id |-> row.id,
                     timestamp |-> ts.v,
                     type |-> row.type,
                     title |-> row.title,
                     content |-> content.v,
                     tags |-> IF Truthy(row.tags) THEN Split(row.tags, ",")
                              ELSE <<>>,
                     project_path |-> row.project_path,
                     session_id |-> row.session_id,
                     session_timestamp |-> sts.v,
                     metadata |-> meta.v,
                     chatgpt_response |-> row.chatgpt_response,
                     claude_response |-> row.claude_response])
    IN  Entry(fromisoformat(row.timestamp),
              content_validate_json(row.content),
              IF Truthy(row.session_timestamp)
              THEN fromisoformat(row.session_timestamp)
              ELSE Ok(NULL),
              IF Truthy(row.metadata) THEN Loads(row.metadata)
              ELSE Ok(JObj(<<>>)))

\* A Todo is [content, status, activeForm]; todo.model_dump() is a dict with
\* the fields in declaration order.
todo_model_dump(todo) ==
    JObj(<<[k |-> K_content, v |-> JStr(todo.content)],
           [k |-> K_status, v |-> JStr(todo.status)],
           [k |-> K_activeForm, v |-> JStr(todo.activeForm)]>>)

\* Todo(**d): the three fields are required strings.
TodoFromDict(j) ==
    IF j.t # "obj" THEN Fail
    ELSE IF ~(HasKey(j.v, K_content) /\ HasKey(j.v, K_status)
              /\ HasKey(j.v, K_activeForm)) THEN Fail
    ELSE LET c == Lookup(j.v, K_content, JNull)
             s == Lookup(j.v, K_status, JNull)
             a == Lookup(j.v, K_activeForm, JNull)
         IN  IF IsJStr(c) /\ IsJStr(s) /\ IsJStr(a)
             THEN Ok([content |-> c.v, status |-> s.v, activeForm |-> a.v])
             ELSE Fail

\* json.dumps([todo.model_dump() for todo in snapshot.todos])
todos_dumps(todos) ==
    Dumps(JList([i \in 1..Len(todos) |-> todo_model_dump(todos[i])]), TRUE)

\* Mutant of todos_loads: the list is built back to front.
todos_loads_reversed(text) ==
    LET r == Loads(text)
    IN  IF ~r.ok THEN Fail
        ELSE IF r.v.t # "list" THEN Fail
        ELSE LET n == Len(r.v.v)
                 items == [i \in 1..n |-> TodoFromDict(r.v.v[n + 1 - i])]
             IN  IF \E i \in 1..n : ~items[i].ok THEN Fail
                 ELSE Ok([i \in 1..n |-> items[i].v])

\* [Todo(**todo) for todo in json.loads(text)]
todos_loads(text) ==
    LET Todos(items) ==
            IF \E i \in 1..Len(items) : ~items[i].ok THEN Fail
            ELSE Ok([i \in 1..Len(items) |-> items[i].v])
        Items(r) ==
            IF ~r.ok THEN Fail
            ELSE IF r.v.t # "list" THEN Fail
            ELSE Todos([i \in 1..Len(r.v.v) |-> TodoFromDict(r.v.v[i])])
    IN  Items(Loads(text))

\* The row save_todo_snapshot binds for a TodoListSnapshot.
SnapshotRow(s) ==
    [id |-> s.id,
     timestamp |-> isoformat(s.timestamp),
     project_path |-> s.project_path,
     git_branch |-> s.git_branch,
     context |-> s.context,
     session_context_id |-> s.session_context_id,
     is_active |-> IF s.is_active THEN 1 ELSE 0,
     todos |-> todos_dumps(s.todos),
     metadata |-> Dumps(s.metadata, TRUE)]

\* _row_to_todo_snapshot(row)
row_to_todo_snapshot(row) ==
    LET Snapshot(todos, ts, meta) ==
            IF ~todos.ok \/ ~ts.ok \/ ~meta.ok THEN Fail
            ELSE IF meta.v.t # "obj" THEN Fail
            ELSE Ok([id |-> row.id,
                     timestamp |-> ts.v,
                     project_path |-> row.project_path,
                     git_branch |-> row.git_branch,
                     context |-> row.context,
                     session_context_id |-> row.session_context_id,
                     is_active |-> row.is_active # 0,
                     todos |-> todos.v,
                     metadata |-> meta.v])
    IN  Snapshot(todos_loads(row.todos),
                 fromisoformat(row.timestamp),
                 IF Truthy(row.metadata) THEN Loads(row.metadata)
                 ELSE Ok(JObj(<<>>)))

\* [convert(row) for row in rows]: it raises when one conversion raises.
RowsToContexts(rows) ==
    LET All(items) ==
            IF \E i \in 1..Len(items) : ~items[i].ok THEN Fail
            ELSE Ok([i \in 1..Len(items) |-> items[i].v])
    IN  All([i \in 1..Len(rows) |-> row_to_context(rows[i])])

RowsToSnapshots(rows) ==
    LET All(items) ==
            IF \E i \in 1..Len(items) : ~items[i].ok THEN Fail
            ELSE Ok([i \in 1..Len(items) |-> items[i].v])
    IN  All([i \in 1..Len(rows) |-> row_to_todo_snapshot(rows[i])])

\* ------------------------------------------------------------- SQL on tables

\* A table is the sequence of its rows in rowid order.

\* Mutant of InsertOrReplace: a plain INSERT into a table without the primary
\* key.
InsertOrReplace_append(table, row) == Append(table, row)

\* Mutant of InsertOrReplace: INSERT OR IGNORE, which keeps the row that holds
\* the primary key.
InsertOrReplace_ignore(table, row) ==
    IF \E i \in 1..Len(table) : table[i].id = row.id THEN table
    ELSE Append(table, row)

\* INSERT OR REPLACE INTO t ... : the row that holds the primary key is deleted
\* and the new row is inserted with the next rowid.
InsertOrReplace(table, row) ==
    LET Other(r) == r.id # row.id
    IN  Append(SelectSeq(table, Other), row)

\* Mutant of DeleteById: the WHERE clause is missing.
DeleteById_all(table, id) == <<>>

\* DELETE FROM t WHERE id = ?
DeleteById(table, id) ==
    LET Other(r) == r.id # id
    IN  SelectSeq(table, Other)

\* SELECT * FROM t WHERE id = ?
SelectById(table, id) ==
    LET Hit(r) == r.id = id
    IN  SelectSeq(table, Hit)

\* Mutant of Deactivate: the UPDATE is missing.
Deactivate_none(table, project_path) == table

\* Mutant of Deactivate: the WHERE clause is missing.
Deactivate_every_project(table, project_path) ==
    [i \in 1..Len(table) |-> [table[i] EXCEPT !.is_active = 0]]

\* Mutant of Deactivate: only the first snapshot of the project is updated.
Deactivate_first(table, project_path) ==
    [i \in 1..Len(table) |->
        IF /\ table[i].project_path = project_path
           /\ \A j \in 1..(i - 1) : table[j].project_path # project_path
        THEN [table[i] EXCEPT !.is_active = 0]
        ELSE table[i]]

\* UPDATE todo_snapshots SET is_active = 0 WHERE project_path = ?
Deactivate(table, project_path) ==
    [i \in 1..Len(table) |->
        IF table[i].project_path = project_path
        THEN [table[i] EXCEPT !.is_active = 0]
        ELSE table[i]]

\* Mutant of SelectActive: the project_path condition is missing.
SelectActive_any_project(table, project_path) ==
    LET Hit(r) == r.is_active = 1
    IN  SelectSeq(table, Hit)

\* SELECT * FROM todo_snapshots WHERE project_path = ? AND is_active = 1
SelectActive(table, project_path) ==
    LET Hit(r) == r.project_path = project_path /\ r.is_active = 1
    IN  SelectSeq(table, Hit)

Reverse(s) == [i \in 1..Len(s) |-> s[Len(s) + 1 - i]]

RECURSIVE InsertByTimestamp(_, _, _)
\* row placed in the sorted rows after every row that does not sort after it.
InsertByTimestamp(sorted, row, desc) ==
    IF sorted = <<>> THEN <<row>>
    ELSE LET first == sorted[1]
             rowFirst == IF desc THEN TextLess(first.timestamp, row.timestamp)
                         ELSE TextLess(row.timestamp, first.timestamp)
         IN  IF rowFirst THEN <<row>> \o sorted
             ELSE <<first>> \o InsertByTimestamp(Tail(sorted), row, desc)

RECURSIVE SortByTimestamp(_, _)
SortByTimestamp(rows, desc) ==
    IF rows = <<>> THEN <<>>
    ELSE InsertByTimestamp(SortByTimestamp(SubSeq(rows, 1, Len(rows) - 1), desc),
                           rows[Len(rows)], desc)

\* ORDER BY timestamp [DESC]: rows with equal timestamps come in the order the
\* engine's plan visits them, rowid ascending or (rev) rowid descending.
OrderByTimestamp(rows, desc, rev) ==
    SortByTimestamp(IF rev THEN Reverse(rows) ELSE rows, desc)

\* Mutant of LimitOffset: the page starts one row early.
LimitOffset_overlap(rows, limit, offset) ==
    SubSeq(rows, IF offset = 0 THEN 1 ELSE offset,
           IF offset + limit < Len(rows) THEN offset + limit ELSE Len(rows))

\* LIMIT ? OFFSET ?
LimitOffset(rows, limit, offset) ==
    SubSeq(rows, offset + 1,
           IF offset + limit < Len(rows) THEN offset + limit ELSE Len(rows))

\* ------------------------------------------- operations of ContextStorage

\* get_context / get_todo_snapshot / get_active_todo_snapshot: fetchone(), None
\* when there is no row, else the converted row.
FetchOneContext(rows) ==
    LET One(r) == IF r.ok THEN Ok(<<r.v>>) ELSE Fail
    IN  IF rows = <<>> THEN Ok(<<>>) ELSE One(row_to_context(rows[1]))

\* Mutant of FetchOneSnapshot: no row raises instead of returning None.
FetchOneSnapshot_raise(rows) ==
    IF rows = <<>> THEN Fail
    ELSE LET r == row_to_todo_snapshot(rows[1])
         IN  IF r.ok THEN Ok(<<r.v>>) ELSE Fail

FetchOneSnapshot(rows) ==
    LET One(r) == IF r.ok THEN Ok(<<r.v>>) ELSE Fail
    IN  IF rows = <<>> THEN Ok(<<>>) ELSE One(row_to_todo_snapshot(rows[1]))

get_context(table, context_id) == FetchOneContext(SelectById(table, context_id))

\* The WHERE clause list_contexts builds: a filter that is None or empty adds
\* no condition.
ListContextsWhere(r, type_filter, project_path) ==
    /\ Truthy(type_filter) => r.type = type_filter
    /\ Truthy(project_path) => r.project_path = project_path

list_contexts(table, type_filter, project_path, limit, offset, rev) ==
    LET Hit(r) == ListContextsWhere(r, type_filter, project_path)
    IN  RowsToContexts(
            LimitOffset(OrderByTimestamp(SelectSeq(table, Hit), TRUE, rev),
                        limit, offset))

get_todo_snapshot(table, snapshot_id) ==
    FetchOneSnapshot(SelectById(table, snapshot_id))

get_active_todo_snapshot(table, project_path) ==
    FetchOneSnapshot(SelectActive(table, project_path))

list_todo_snapshots(table, project_path, limit, offset, rev) ==
    LET Hit(r) == Truthy(project_path) => r.project_path = project_path
    IN  RowsToSnapshots(
            LimitOffset(OrderByTimestamp(SelectSeq(table, Hit), TRUE, rev),
                        limit, offset))

\* ------------------------------------------------------------------ LIKE

UpperCase == <<"A", "B", "C", "D", "E", "F", "G", "H", "I", "J", "K", "L", "M",
               "N", "O", "P", "Q", "R", "S", "T", "U", "V", "W", "X", "Y", "Z">>
LowerCase == <<"a", "b", "c", "d", "e", "f", "g", "h", "i", "j", "k", "l", "m",
               "n", "o", "p", "q", "r", "s", "t", "u", "v", "w", "x", "y", "z">>

UpperSet == {UpperCase[i] : i \in 1..Len(UpperCase)}
LowerOf ==
    [c \in UpperSet |->
        LowerCase[CHOOSE i \in 1..Len(UpperCase) : UpperCase[i] = c]]

\* LIKE folds the case of the ASCII letters only.
ToLower(c) == IF c \in UpperSet THEN LowerOf[c] ELSE c

RECURSIVE LikeAt(_, _, _, _)
\* The pattern from position i matches the text from position j: % matches
\* any run of characters, _ matches any one character, another character
\* matches itself without regard to ASCII case.
LikeAt(pattern, i, text, j) ==
    IF i > Len(pattern) THEN j > Len(text)
    ELSE IF pattern[i] = "%"
         THEN \E k \in j..(Len(text) + 1) : LikeAt(pattern, i + 1, text, k)
    ELSE IF j > Len(text) THEN FALSE
    ELSE IF pattern[i] = "_" THEN LikeAt(pattern, i + 1, text, j + 1)
    ELSE /\ ToLower(pattern[i]) = ToLower(text[j])
         /\ LikeAt(pattern, i + 1, text, j + 1)

\* text LIKE pattern in a WHERE clause: NULL LIKE pattern is NULL, which
\* selects nothing.
Like(pattern, text) == text # NULL /\ LikeAt(pattern, 1, text, 1)

\* The longest LIKE pattern, in bytes, the SQLite library accepts (its limit
\* SQLITE_MAX_LIKE_PATTERN_LENGTH); a longer pattern makes the statement fail
\* with "LIKE or GLOB pattern too complex" when LIKE is applied to a row.
SQLITE_MAX_LIKE_PATTERN_LENGTH == 50000

\* f"%{query}%"
LikePattern(query) == <<"%">> \o query \o <<"%">>

\* search_contexts(query, type_filter, limit).  The rows of the type are
\* visited and LIKE is applied to each.
search_contexts(table, query, type_filter, limit, rev) ==
    LET pattern == LikePattern(query)
        OfType(r) == Truthy(type_filter) => r.type = type_filter
        Hit(r) == \/ Like(pattern, r.title)
                  \/ Like(pattern, r.content)
                  \/ Like(pattern, r.tags)
        visited == SelectSeq(table, OfType)
    IN  IF Len(pattern) > SQLITE_MAX_LIKE_PATTERN_LENGTH /\ visited # <<>>
        THEN Fail
        ELSE RowsToContexts(
                 LimitOffset(OrderByTimestamp(SelectSeq(visited, Hit), TRUE, rev),
                             limit, 0))

\* search_todo_snapshots(query, project_path, limit)
search_todo_snapshots(table, query, project_path, limit, rev) ==
    LET pattern == LikePattern(query)
        OfProject(r) == Truthy(project_path) => r.project_path = project_path
        Hit(r) == Like(pattern, r.todos) \/ Like(pattern, r.context)
        visited == SelectSeq(table, OfProject)
    IN  IF Len(pattern) > SQLITE_MAX_LIKE_PATTERN_LENGTH /\ visited # <<>>
        THEN Fail
        ELSE RowsToSnapshots(
                 LimitOffset(OrderByTimestamp(SelectSeq(visited, Hit), TRUE, rev),
                             limit, 0))

\* "tags LIKE ? OR tags LIKE ? ..." on one row, the patterns applied from the
\* first one up to the first that matches: Ok(TRUE) when one matches,
\* Ok(FALSE) when none does, Fail when a pattern that is applied is too long.
RECURSIVE AnyTagLike(_, _, _)
AnyTagLike(tags, i, row) ==
    IF i > Len(tags) THEN Ok(FALSE)
    ELSE IF Len(LikePattern(tags[i])) > SQLITE_MAX_LIKE_PATTERN_LENGTH THEN Fail
    ELSE IF Like(LikePattern(tags[i]), row.tags) THEN Ok(TRUE)
    ELSE AnyTagLike(tags, i + 1, row)

\* The scan of the rows in timestamp order that stops when limit rows are
\* selected.
RECURSIVE ScanByTags(_, _, _, _, _)
ScanByTags(rows, k, tags, limit, acc) ==
    IF Len(acc) >= limit \/ k > Len(rows) THEN Ok(acc)
    ELSE LET hit == AnyTagLike(tags, 1, rows[k])
         IN  IF ~hit.ok THEN Fail
             ELSE ScanByTags(rows, k + 1, tags, limit,
                             IF hit.v THEN Append(acc, rows[k]) ELSE acc)

\* get_contexts_by_tags(tags, limit): with no tag the statement is
\* "... WHERE  ORDER BY ...", which SQLite rejects (syntax error).
get_contexts_by_tags(table, tags, limit, rev) ==
    IF tags = <<>> THEN Fail
    ELSE LET rows == ScanByTags(OrderByTimestamp(table, TRUE, rev), 1, tags,
                                limit, <<>>)
         IN  IF rows.ok THEN RowsToContexts(rows.v) ELSE Fail

\* Mutant of update_chatgpt_response: the WHERE clause is missing.
update_chatgpt_response_all(table, context_id, response) ==
    [i \in 1..Len(table) |-> [table[i] EXCEPT !.chatgpt_response = response]]

\* UPDATE contexts SET chatgpt_response = ? WHERE id = ?
update_chatgpt_response(table, context_id, response) ==
    [i \in 1..Len(table) |->
        IF table[i].id = context_id
        THEN [table[i] EXCEPT !.chatgpt_response = response]
        ELSE table[i]]

\* UPDATE contexts SET claude_response = ? WHERE id = ?
update_claude_response(table, context_id, response) ==
    [i \in 1..Len(table) |->
        IF table[i].id = context_id
        THEN [table[i] EXCEPT !.claude_response = response]
        ELSE table[i]]

\* a < b for two values of a TEXT column that may be NULL: NULL sorts before
\* every text.
NullLess(a, b) ==
    IF a = NULL THEN b # NULL
    ELSE b # NULL /\ TextLess(a, b)

\* MIN(timestamp) and MAX(timestamp) of a group of rows.
MinTimestamp(group) ==
    group[CHOOSE i \in 1..Len(group) :
             \A j \in 1..Len(group) : ~TextLess(group[j].timestamp, group[i].timestamp)]
        .timestamp
MaxTimestamp(group) ==
    group[CHOOSE i \in 1..Len(group) :
             \A j \in 1..Len(group) : ~TextLess(group[i].timestamp, group[j].timestamp)]
        .timestamp

\* The row of the query "SELECT session_id, session_timestamp, COUNT(*),
\* MIN(timestamp), MAX(timestamp) ... GROUP BY session_id" for one group.
\* session_timestamp is a bare column: SQLite takes it from a row that holds
\* the minimum or the maximum (which of the two is its choice, pick).
SessionSummary(group, pick) ==
    LET first == MinTimestamp(group)
        last == MaxTimestamp(group)
        at == IF pick = "min" THEN first ELSE last
        src == group[CHOOSE i \in 1..Len(group) : group[i].timestamp = at]
    IN  [session_id |-> group[1].session_id,
         session_timestamp |-> src.session_timestamp,
         context_count |-> Len(group),
         first_context |-> first,
         last_context |-> last]

\* Mutant of SessionBefore: ORDER BY session_timestamp ascending.
SessionBefore_asc(a, b, rev) ==
    \/ NullLess(a.session_timestamp, b.session_timestamp)
    \/ /\ a.session_timestamp = b.session_timestamp
       /\ IF rev THEN TextLess(b.session_id, a.session_id)
          ELSE TextLess(a.session_id, b.session_id)

\* ORDER BY session_timestamp DESC of the summaries: a summary comes before
\* another with a smaller (or NULL) session_timestamp; between equal ones the
\* order of the groups decides, which is by session_id, in either direction.
SessionBefore(a, b, rev) ==
    \/ NullLess(b.session_timestamp, a.session_timestamp)
    \/ /\ a.session_timestamp = b.session_timestamp
       /\ IF rev THEN TextLess(b.session_id, a.session_id)
          ELSE TextLess(a.session_id, b.session_id)

RECURSIVE OrderSessions(_, _)
OrderSessions(S, rev) ==
    IF S = {} THEN <<>>
    ELSE LET a == CHOOSE x \in S : \A y \in S \ {x} : SessionBefore(x, y, rev)
         IN  <<a>> \o OrderSessions(S \ {a}, rev)

\* list_sessions(project_path, limit): the dicts of the grouped rows.
list_sessions(table, project_path, limit, pick, rev) ==
    LET InProject(r) == r.project_path = project_path /\ r.session_id # NULL
        rows == SelectSeq(table, InProject)
        sids == {rows[i].session_id : i \in 1..Len(rows)}
        Group(sid) == LET Of(r) == r.session_id = sid IN SelectSeq(rows, Of)
        summaries == {SessionSummary(Group(sid), pick) : sid \in sids}
    IN  Ok(LimitOffset(OrderSessions(summaries, rev), limit, 0))

\* Mutant of get_session_contexts: ORDER BY timestamp DESC.
get_session_contexts_desc(table, session_id, rev) ==
    LET Of(r) == session_id # NULL /\ r.session_id = session_id
    IN  RowsToContexts(OrderByTimestamp(SelectSeq(table, Of), TRUE, rev))

\* get_session_contexts(session_id):
\* SELECT * FROM contexts WHERE session_id = ? ORDER BY timestamp ASC
get_session_contexts(table, session_id, rev) ==
    LET Of(r) == session_id # NULL /\ r.session_id = session_id
    IN  RowsToContexts(OrderByTimestamp(SelectSeq(table, Of), FALSE, rev))

\* ------------------------------------------------------------------ state

VARIABLES
    contexts,        \* the committed rows of table contexts (the database file)
    todo_snapshots,  \* the committed rows of table todo_snapshots
    scan_rev,        \* whether the engine's plan visits equal timestamps in
                     \* descending rowid order; fixed for a database
    pc,              \* per process: where its current call stands
    op,              \* per process: the operation it called
    arg,             \* per process: the argument of the call
    ret,             \* per process: the result of the call
    cache,           \* per process: its connection's uncommitted todo_snapshots
    lock,            \* the process that holds the database's write lock
    journal,         \* the rollback journal: todo_snapshots as the open
                     \* transaction found it
    db_path,         \* the path of the database file, as its segments
    journal_mode,    \* the journal mode the database file is in
    schema,          \* the tables and indexes the database file holds
    log,             \* the messages the engine has logged
    conns,           \* per process: the connections it holds open
    waited           \* per process: how long its statement has waited for the
                     \* write lock, in milliseconds

vars ==
    <<contexts, todo_snapshots, scan_rev, pc, op, arg, ret, cache, lock, journal,
      db_path, journal_mode, schema, log, conns, waited>>

\* Independent OS processes that use the same database file.
Procs == {"p1", "p2"}

NoArg == <<>>
NoRet == Ok(<<>>)
NoJournal == [hot |-> FALSE]

\* The connections of a process.  An operation runs in
\* "with sqlite3.connect(self.db_path) as conn:", whose exit commits and does
\* not close: the connection of a finished operation stays open until the
\* interpreter finalizes the unreferenced object.
InUse == "in use"
LeftOpen == "left open"
Connect(c) == c \cup {InUse}
LeaveOpen(c) == (c \ {InUse}) \cup {LeftOpen}

\* ------------------------------------------------------ the database file

\* Paths of database files, as their segments: on a local disk, and in the
\* folder of a file-synchronization client.
LocalPath == <<"tmp", "test.db">>
DropboxPath == <<"tmp", "Dropbox", "test.db">>

\* CREATE TABLE and CREATE INDEX of _init_db: the objects of the schema.
TableObject(name) == [type |-> "table", name |-> name, tbl_name |-> name]
IndexObject(name, tbl_name) == [type |-> "index", name |-> name, tbl_name |-> tbl_name]

\* The statements _init_db executes, in their order.
InitStatements ==
    <<TableObject("contexts"),
      IndexObject("idx_type", "contexts"),
      IndexObject("idx_timestamp", "contexts"),
      IndexObject("idx_title", "contexts"),
      IndexObject("idx_project_path", "contexts"),
      IndexObject("idx_session_id", "contexts"),
      IndexObject("idx_session_timestamp", "contexts"),
      TableObject("todo_snapshots"),
      IndexObject("idx_todo_project", "todo_snapshots"),
      IndexObject("idx_todo_timestamp", "todo_snapshots"),
      IndexObject("idx_todo_active", "todo_snapshots"),
      IndexObject("idx_todo_branch", "todo_snapshots")>>

\* A database file: the objects of its schema and the rows of its two tables.
NoFile == [schema |-> {}, contexts |-> <<>>, todo_snapshots |-> <<>>]

HasObject(file, name) == \E o \in file.schema : o.name = name

\* Mutant of CreateIfNotExists: DROP ... IF EXISTS, then CREATE; a table that
\* is created again is empty.
CreateIfNotExists_recreate(file, object) ==
    [schema |-> {o \in file.schema : o.name # object.name} \cup {object},
     contexts |->
        IF object = TableObject("contexts") THEN <<>> ELSE file.contexts,
     todo_snapshots |->
        IF object = TableObject("todo_snapshots") THEN <<>>
        ELSE file.todo_snapshots]

\* conn.execute("CREATE TABLE IF NOT EXISTS ...") and
\* conn.execute("CREATE INDEX IF NOT EXISTS ..."): an object of that name stays
\* as it is, with its rows; a new table has no rows.
CreateIfNotExists(file, object) ==
    IF HasObject(file, object.name) THEN file
    ELSE [file EXCEPT !.schema = @ \cup {object}]

RECURSIVE ExecuteAll(_, _)
ExecuteAll(file, statements) ==
    IF statements = <<>> THEN file
    ELSE ExecuteAll(CreateIfNotExists(file, Head(statements)), Tail(statements))

\* _init_db(): the file after the statements and the commit.
init_db(file) == ExecuteAll(file, InitStatements)

\* The schema of a database that _init_db created.
Schema == init_db(NoFile).schema

\* ------------------------------------------------------- inputs of the calls

Projects == {<<"/", "a">>, <<"/", "b">>}
SnapIds == {<<"s", Digits[i + 1]>> : i \in 1..NumSnapIds}

Pending == <<"p", "e", "n", "d", "i", "n", "g">>
Todo1 == [content |-> <<"T", "1">>, status |-> Pending, activeForm |-> <<"A", "1">>]
Todo2 == [content |-> <<"T", "2">>, status |-> Pending, activeForm |-> <<"A", "2">>]
EmptyDict == JObj(<<>>)

MkSnapshot(id, project_path, is_active, timestamp, todos) ==
    [id |-> id,
     timestamp |-> timestamp,
     project_path |-> project_path,
     git_branch |-> NULL,
     todos |-> todos,
     context |-> NULL,
     session_context_id |-> NULL,
     is_active |-> is_active,
     metadata |-> EmptyDict]

\* The snapshots the processes save: every id in every project, active or not;
\* s1 and s2 share a timestamp.
SnapshotPool ==
    {MkSnapshot(id, p, a,
                IF id = <<"s", "3">> THEN <<2, 5>> ELSE <<1, 0>>,
                IF id = <<"s", "2">> THEN <<>> ELSE <<Todo1>>) :
        id \in SnapIds, p \in Projects, a \in BOOLEAN}

Ids(table) == {table[i].id : i \in 1..Len(table)}

\* ------------------------------------------------ todo snapshots: processes

\* A process calls save_todo_snapshot(s): the connection is opened.
CallSaveTodoSnapshot(p, s) ==
    /\ pc[p] = "idle"
    /\ pc' = [pc EXCEPT ![p] = "save_begin"]
    /\ op' = [op EXCEPT ![p] = "save_todo_snapshot"]
    /\ arg' = [arg EXCEPT ![p] = s]
    /\ conns' = [conns EXCEPT ![p] = Connect(@)]
    /\ UNCHANGED <<contexts, todo_snapshots, scan_rev, ret, cache, lock, journal, db_path, journal_mode, schema, log, waited>>

\* Mutant of ExecDeactivate: the UPDATE runs in autocommit mode, so it reaches
\* the file before the INSERT does.
ExecDeactivate_autocommit(p) ==
    /\ pc[p] = "save_begin"
    /\ arg[p].is_active
    /\ lock = "none"
    /\ lock' = p
    /\ journal' = [hot |-> TRUE, todo |-> todo_snapshots]
    /\ todo_snapshots' = Deactivate(todo_snapshots, arg[p].project_path)
    /\ cache' = [cache EXCEPT ![p] = Deactivate(todo_snapshots, arg[p].project_path)]
    /\ pc' = [pc EXCEPT ![p] = "save_insert"]
    /\ UNCHANGED <<contexts, scan_rev, op, arg, ret, db_path, journal_mode, schema, log, conns>>
    /\ waited' = [waited EXCEPT ![p] = 0]

\* if snapshot.is_active: UPDATE ... SET is_active = 0 WHERE project_path = ?
\* The first write of the connection begins its transaction and takes the
\* write lock; the change stays in the connection until commit.
ExecDeactivate(p) ==
    /\ pc[p] = "save_begin"
    /\ arg[p].is_active
    /\ lock = "none"
    /\ lock' = p
    /\ journal' = [hot |-> TRUE, todo |-> todo_snapshots]
    /\ cache' = [cache EXCEPT ![p] = Deactivate(todo_snapshots, arg[p].project_path)]
    /\ pc' = [pc EXCEPT ![p] = "save_insert"]
    /\ UNCHANGED <<contexts, todo_snapshots, scan_rev, op, arg, ret, db_path, journal_mode, schema, log, conns>>
    /\ waited' = [waited EXCEPT ![p] = 0]

\* INSERT OR REPLACE INTO todo_snapshots ..., the first statement of the
\* transaction when the snapshot is not active.
ExecInsert(p) ==
    /\ \/ /\ pc[p] = "save_begin"
          /\ ~arg[p].is_active
          /\ lock = "none"
          /\ lock' = p
          /\ journal' = [hot |-> TRUE, todo |-> todo_snapshots]
          /\ cache' = [cache EXCEPT ![p] =
                          InsertOrReplace(todo_snapshots, SnapshotRow(arg[p]))]
       \/ /\ pc[p] = "save_insert"
          /\ cache' = [cache EXCEPT ![p] =
                          InsertOrReplace(cache[p], SnapshotRow(arg[p]))]
          /\ UNCHANGED <<lock, journal>>
    /\ pc' = [pc EXCEPT ![p] = "commit"]
    /\ ret' = [ret EXCEPT ![p] = Ok(NULL)]
    /\ UNCHANGED <<contexts, todo_snapshots, scan_rev, op, arg, db_path, journal_mode, schema, log, conns>>
    /\ waited' = [waited EXCEPT ![p] = 0]

\* A process calls delete_todo_snapshot(id).
CallDeleteTodoSnapshot(p, id) ==
    /\ pc[p] = "idle"
    /\ pc' = [pc EXCEPT ![p] = "delete_begin"]
    /\ op' = [op EXCEPT ![p] = "delete_todo_snapshot"]
    /\ arg' = [arg EXCEPT ![p] = id]
    /\ conns' = [conns EXCEPT ![p] = Connect(@)]
    /\ UNCHANGED <<contexts, todo_snapshots, scan_rev, ret, cache, lock, journal, db_path, journal_mode, schema, log, waited>>

\* Mutant of ExecDelete: when the deleted snapshot was active, the remaining
\* snapshots of its project are made active.
ExecDelete_promote(p) ==
    /\ pc[p] = "delete_begin"
    /\ lock = "none"
    /\ lock' = p
    /\ journal' = [hot |-> TRUE, todo |-> todo_snapshots]
    /\ cache' = [cache EXCEPT ![p] =
                    LET rest == DeleteById(todo_snapshots, arg[p])
                        gone == SelectById(todo_snapshots, arg[p])
                    IN  [i \in 1..Len(rest) |->
                            IF /\ gone # <<>>
                               /\ gone[1].is_active = 1
                               /\ rest[i].project_path = gone[1].project_path
                            THEN [rest[i] EXCEPT !.is_active = 1]
                            ELSE rest[i]]]
    /\ ret' = [ret EXCEPT ![p] =
                  Ok(Len(todo_snapshots) - Len(DeleteById(todo_snapshots, arg[p])) > 0)]
    /\ pc' = [pc EXCEPT ![p] = "commit"]
    /\ UNCHANGED <<contexts, todo_snapshots, scan_rev, op, arg, db_path, journal_mode, schema, log, conns>>
    /\ waited' = [waited EXCEPT ![p] = 0]

\* DELETE FROM todo_snapshots WHERE id = ?; the result is cursor.rowcount > 0.
ExecDelete(p) ==
    /\ pc[p] = "delete_begin"
    /\ lock = "none"
    /\ lock' = p
    /\ journal' = [hot |-> TRUE, todo |-> todo_snapshots]
    /\ cache' = [cache EXCEPT ![p] = DeleteById(todo_snapshots, arg[p])]
    /\ ret' = [ret EXCEPT ![p] =
                  Ok(Len(todo_snapshots) - Len(DeleteById(todo_snapshots, arg[p])) > 0)]
    /\ pc' = [pc EXCEPT ![p] = "commit"]
    /\ UNCHANGED <<contexts, todo_snapshots, scan_rev, op, arg, db_path, journal_mode, schema, log, conns>>
    /\ waited' = [waited EXCEPT ![p] = 0]

\* conn.commit(): the connection's changes reach the file together and the
\* lock is released.
Commit(p) ==
    /\ pc[p] = "commit"
    /\ todo_snapshots' = cache[p]
    /\ cache' = [cache EXCEPT ![p] = <<>>]
    /\ lock' = "none"
    /\ journal' = NoJournal
    /\ pc' = [pc EXCEPT ![p] = "done"]
    /\ UNCHANGED <<contexts, scan_rev, op, arg, ret, db_path, journal_mode, schema, log, conns, waited>>

\* get_todo_snapshot(id): one SELECT on the committed rows.
GetTodoSnapshot(p, id) ==
    /\ pc[p] = "idle"
    /\ pc' = [pc EXCEPT ![p] = "done"]
    /\ op' = [op EXCEPT ![p] = "get_todo_snapshot"]
    /\ arg' = [arg EXCEPT ![p] = id]
    /\ ret' = [ret EXCEPT ![p] = get_todo_snapshot(todo_snapshots, id)]
    /\ conns' = [conns EXCEPT ![p] = LeaveOpen(@)]
    /\ UNCHANGED <<contexts, todo_snapshots, scan_rev, cache, lock, journal, db_path, journal_mode, schema, log, waited>>

\* get_active_todo_snapshot(project_path): one SELECT on the committed rows.
GetActiveTodoSnapshot(p, project_path) ==
    /\ pc[p] = "idle"
    /\ pc' = [pc EXCEPT ![p] = "done"]
    /\ op' = [op EXCEPT ![p] = "get_active_todo_snapshot"]
    /\ arg' = [arg EXCEPT ![p] = project_path]
    /\ ret' = [ret EXCEPT ![p] = get_active_todo_snapshot(todo_snapshots, project_path)]
    /\ conns' = [conns EXCEPT ![p] = LeaveOpen(@)]
    /\ UNCHANGED <<contexts, todo_snapshots, scan_rev, cache, lock, journal, db_path, journal_mode, schema, log, waited>>

\* The call returns to its caller: the with-block has ended and nothing refers
\* to the connection.
Return(p) ==
    /\ pc[p] = "done"
    /\ pc' = [pc EXCEPT ![p] = "idle"]
    /\ op' = [op EXCEPT ![p] = "none"]
    /\ arg' = [arg EXCEPT ![p] = NoArg]
    /\ ret' = [ret EXCEPT ![p] = NoRet]
    /\ conns' = [conns EXCEPT ![p] = LeaveOpen(@)]
    /\ UNCHANGED <<contexts, todo_snapshots, scan_rev, cache, lock, journal, db_path, journal_mode, schema, log, waited>>

Init ==
    /\ contexts = <<>>
    /\ todo_snapshots = <<>>
    /\ scan_rev = FALSE
    /\ pc = [p \in Procs |-> "idle"]
    /\ op = [p \in Procs |-> "none"]
    /\ arg = [p \in Procs |-> NoArg]
    /\ ret = [p \in Procs |-> NoRet]
    /\ cache = [p \in Procs |-> <<>>]
    /\ lock = "none"
    /\ journal = NoJournal
    /\ db_path = LocalPath
    /\ journal_mode = "delete"
    /\ schema = Schema
    /\ log = {}
    /\ conns = [p \in Procs |-> {LeftOpen}]
    /\ waited = [p \in Procs |-> 0]

Next ==
    \E p \in Procs :
        \/ \E s \in SnapshotPool : CallSaveTodoSnapshot(p, s)
        \/ ExecDeactivate(p)
        \/ ExecInsert(p)
        \/ \E id \in SnapIds : CallDeleteTodoSnapshot(p, id)
        \/ ExecDelete(p)
        \/ Commit(p)
        \/ \E id \in SnapIds : GetTodoSnapshot(p, id)
        \/ \E project_path \in Projects : GetActiveTodoSnapshot(p, project_path)
        \/ Return(p)

\* The todo-snapshot store used by two processes.
Spec == Init /\ [][Next]_vars

\* ------------------------------------------- contexts: one process's calls

\* The process whose sequential calls SpecCtx, SpecSeq and SpecRT follow.  Each
\* operation runs as one step, from the call to the commit; op, arg and ret hold
\* the call and its result until the process goes on (Return).
Caller == "p1"

CtxIds == {<<"c", "1">>, <<"c", "2">>, <<"c", "3">>}
Code == <<"c", "o", "d", "e">>
Error == <<"e", "r", "r", "o", "r">>
ContentHi ==
    [messages |-> JNull, code |-> JNull,
     suggestions |-> JStr(<<"h", "i">>), errors |-> JNull]

MkContext(id, timestamp, type, title, tags, project_path, chatgpt, claude) ==
    [id |-> id,
     timestamp |-> timestamp,
     type |-> type,
     title |-> title,
     content |-> ContentHi,
     tags |-> tags,
     project_path |-> project_path,
     session_id |-> NULL,
     session_timestamp |-> NULL,
     metadata |-> EmptyDict,
     chatgpt_response |-> chatgpt,
     claude_response |-> claude]

\* The entries the caller saves: each id in four shapes that differ in
\* timestamp (two of them equal), type, project, title, tags and responses.
ContextPool ==
    UNION {{MkContext(id, <<1, 0>>, Code, <<"T", "1">>, << <<"x">> >>,
                      <<"/", "a">>, NULL, NULL),
            MkContext(id, <<1, 0>>, Error, <<"T", "2">>, <<>>,
                      <<"/", "a">>, <<"r">>, NULL),
            MkContext(id, <<2, 5>>, Code, <<"T", "1">>, << <<"x">>, <<"y">> >>,
                      <<"/", "b">>, NULL, <<>>),
            MkContext(id, <<1, 5>>, Code, <<"T", "2">>, << <<"x">> >>,
                      <<"/", "a">>, <<"r">>, <<"r">>)} : id \in CtxIds}

\* The filter values list_contexts is called with: None, "" and a value.
TypeFilters == {NULL, <<>>, Code}
ProjectFilters == {NULL, <<>>, <<"/", "a">>}

Called(name, a, r) ==
    /\ pc[Caller] = "idle"
    /\ pc' = [pc EXCEPT ![Caller] = "done"]
    /\ op' = [op EXCEPT ![Caller] = name]
    /\ arg' = [arg EXCEPT ![Caller] = a]
    /\ ret' = [ret EXCEPT ![Caller] = r]
    /\ conns' = [conns EXCEPT ![Caller] = LeaveOpen(@)]

\* save_context(context): INSERT OR REPLACE and commit.
SaveContext(e) ==
    /\ pc[Caller] = "idle"
    /\ Cardinality(Ids(contexts) \cup {e.id}) <= MaxRows
    /\ contexts' = InsertOrReplace(contexts, ContextRow(e))
    /\ Called("save_context", e, Ok(NULL))
    /\ UNCHANGED <<todo_snapshots, scan_rev, cache, lock, journal, db_path, journal_mode, schema, log, waited>>

\* get_context(context_id)
GetContext(id) ==
    /\ Called("get_context", id, get_context(contexts, id))
    /\ UNCHANGED <<contexts, todo_snapshots, scan_rev, cache, lock, journal, db_path, journal_mode, schema, log, waited>>

\* delete_context(context_id): DELETE, commit, return cursor.rowcount > 0.
DeleteContext(id) ==
    /\ pc[Caller] = "idle"
    /\ contexts' = DeleteById(contexts, id)
    /\ Called("delete_context", id,
              Ok(Len(contexts) - Len(DeleteById(contexts, id)) > 0))
    /\ UNCHANGED <<todo_snapshots, scan_rev, cache, lock, journal, db_path, journal_mode, schema, log, waited>>

\* list_contexts(type_filter, project_path, limit, offset)
ListContexts(type_filter, project_path, limit, offset) ==
    /\ Called("list_contexts",
              [type_filter |-> type_filter, project_path |-> project_path,
               limit |-> limit, offset |-> offset],
              list_contexts(contexts, type_filter, project_path, limit, offset,
                            scan_rev))
    /\ UNCHANGED <<contexts, todo_snapshots, scan_rev, cache, lock, journal, db_path, journal_mode, schema, log, waited>>

InitCtx ==
    /\ contexts = <<>>
    /\ todo_snapshots = <<>>
    /\ scan_rev \in BOOLEAN
    /\ pc = [p \in Procs |-> "idle"]
    /\ op = [p \in Procs |-> "none"]
    /\ arg = [p \in Procs |-> NoArg]
    /\ ret = [p \in Procs |-> NoRet]
    /\ cache = [p \in Procs |-> <<>>]
    /\ lock = "none"
    /\ journal = NoJournal
    /\ db_path = LocalPath
    /\ journal_mode = "delete"
    /\ schema = Schema
    /\ log = {}
    /\ conns = [p \in Procs |-> {LeftOpen}]
    /\ waited = [p \in Procs |-> 0]

NextCtx ==
    \/ \E e \in ContextPool : SaveContext(e)
    \/ \E id \in CtxIds : GetContext(id)
    \/ \E id \in CtxIds : DeleteContext(id)
    \/ \E t \in TypeFilters, p \in ProjectFilters, limit \in 1..MaxLimit,
          offset \in 0..MaxLimit :
          ListContexts(t, p, limit, offset)
    \/ Return(Caller)

\* The context store under the sequential calls of one process.
SpecCtx == InitCtx /\ [][NextCtx]_vars

\* -------------------------------------------- save, then read back by id

\* The most tags of an entry and the most todos of a snapshot that is saved
\* and read back.
MaxTags == 2
MaxTodos == 2

SeqsUpTo(S, n) == UNION {[1..k -> S] : k \in 0..n}

\* Tags without a comma; the empty string is one of them.
TagPool == {<<>>, <<"x">>, <<"y", "z">>}

ContentNone ==
    [messages |-> JNull, code |-> JNull, suggestions |-> JNull, errors |-> JNull]
ContentFull ==
    [messages |-> JList(<<JStr(<<"m">>), JStr(<<>>)>>),
     code |-> JObj(<<[k |-> <<"f">>, v |-> JStr(<<"q", "\"", ",">>)]>>),
     suggestions |-> JStr(<<>>),
     errors |-> JStr(<<"\\", " ">>)]
Meta1 == JObj(<<[k |-> <<"k">>, v |-> JStr(<<"v", ",", " ">>)]>>)

\* (session_id, session_timestamp) and (chatgpt_response, claude_response):
\* absent, empty, set.
SessionPool == {<<NULL, NULL>>, << <<>>, <<2, 5>> >>, << <<"s">>, <<2, 0>> >>}
ResponsePool == {<<NULL, NULL>>, << <<>>, <<"r", "\"">> >>, << <<"r">>, <<>> >>}

\* The entries that are saved and read back.
RoundTripContexts ==
    {[id |-> <<"c", "1">>,
      timestamp |-> ts,
      type |-> Code,
      title |-> <<"T", "1">>,
      content |-> c,
      tags |-> tags,
      project_path |-> <<"/", "a">>,
      session_id |-> ses[1],
      session_timestamp |-> ses[2],
      metadata |-> m,
      chatgpt_response |-> rsp[1],
      claude_response |-> rsp[2]] :
        ts \in {<<1, 0>>, <<1, 5>>},
        c \in {ContentNone, ContentHi, ContentFull},
        tags \in SeqsUpTo(TagPool, MaxTags),
        ses \in SessionPool,
        m \in {EmptyDict, Meta1},
        rsp \in ResponsePool}

TodoQ ==
    [content |-> <<"\"", "\\", ",">>,
     status |-> <<"d", "o", "n", "e">>,
     activeForm |-> <<>>]

\* The snapshots that are saved and read back.
RoundTripSnapshots ==
    {[id |-> <<"s", "1">>,
      timestamp |-> <<1, 5>>,
      project_path |-> <<"/", "a">>,
      git_branch |-> opt[1],
      todos |-> todos,
      context |-> opt[2],
      session_context_id |-> opt[3],
      is_active |-> a,
      metadata |-> m] :
        opt \in {<<NULL, NULL, NULL>>, << <<>>, <<"c", ",">>, <<>> >>,
                 << <<"m">>, <<>>, <<"c", "1">> >>},
        todos \in SeqsUpTo({Todo1, Todo2, TodoQ}, MaxTodos),
        a \in BOOLEAN,
        m \in {EmptyDict, Meta1}}

\* The table after save_todo_snapshot(s) committed: the UPDATE of an active
\* save, then the INSERT OR REPLACE.
save_todo_snapshot(table, s) ==
    InsertOrReplace(IF s.is_active THEN Deactivate(table, s.project_path)
                    ELSE table,
                    SnapshotRow(s))

\* save_todo_snapshot(snapshot) by the one process, from the call to the commit.
SaveTodoSnapshot(s) ==
    /\ pc[Caller] = "idle"
    /\ todo_snapshots' = save_todo_snapshot(todo_snapshots, s)
    /\ Called("save_todo_snapshot", s, Ok(NULL))
    /\ UNCHANGED <<contexts, scan_rev, cache, lock, journal, db_path, journal_mode, schema, log, waited>>

\* retrieved = storage.get_context(context.id), right after the save.
ReadBackContext ==
    /\ pc[Caller] = "done"
    /\ op[Caller] = "save_context"
    /\ pc' = [pc EXCEPT ![Caller] = "readback"]
    /\ ret' = [ret EXCEPT ![Caller] = get_context(contexts, arg[Caller].id)]
    /\ conns' = [conns EXCEPT ![Caller] = LeaveOpen(@)]
    /\ UNCHANGED <<contexts, todo_snapshots, scan_rev, op, arg, cache, lock, journal, db_path, journal_mode, schema, log, waited>>

\* retrieved = storage.get_todo_snapshot(snapshot.id), right after the save.
ReadBackSnapshot ==
    /\ pc[Caller] = "done"
    /\ op[Caller] = "save_todo_snapshot"
    /\ pc' = [pc EXCEPT ![Caller] = "readback"]
    /\ ret' = [ret EXCEPT ![Caller] =
                  get_todo_snapshot(todo_snapshots, arg[Caller].id)]
    /\ conns' = [conns EXCEPT ![Caller] = LeaveOpen(@)]
    /\ UNCHANGED <<contexts, todo_snapshots, scan_rev, op, arg, cache, lock, journal, db_path, journal_mode, schema, log, waited>>

\* ContextStorage(db_path) on a path that holds no database: _init_db creates
\* the two tables, empty.
NewStore ==
    /\ pc[Caller] = "readback"
    /\ contexts' = <<>>
    /\ todo_snapshots' = <<>>
    /\ pc' = [pc EXCEPT ![Caller] = "idle"]
    /\ op' = [op EXCEPT ![Caller] = "none"]
    /\ arg' = [arg EXCEPT ![Caller] = NoArg]
    /\ ret' = [ret EXCEPT ![Caller] = NoRet]
    /\ conns' = [conns EXCEPT ![Caller] = LeaveOpen(@)]
    /\ UNCHANGED <<scan_rev, cache, lock, journal, db_path, journal_mode, schema, log, waited>>

NextRT ==
    \/ \E e \in RoundTripContexts : SaveContext(e)
    \/ \E s \in RoundTripSnapshots : SaveTodoSnapshot(s)
    \/ ReadBackContext
    \/ ReadBackSnapshot
    \/ NewStore

\* One process saves a record into a new store and reads it back by its id.
SpecRT == Init /\ [][NextRT]_vars

\* --------------------------------------- both tables: one process's calls

\* The entries the caller saves while it also saves and deletes snapshots: two
\* ids in two shapes.
SeqCtxIds == {<<"c", "1">>, <<"c", "2">>}
SeqContextPool ==
    {e \in ContextPool : e.id \in SeqCtxIds /\ e.timestamp = <<1, 0>>}

\* delete_todo_snapshot(snapshot_id) by the one process: DELETE, commit, return
\* cursor.rowcount > 0.
DeleteTodoSnapshot(id) ==
    /\ pc[Caller] = "idle"
    /\ todo_snapshots' = DeleteById(todo_snapshots, id)
    /\ Called("delete_todo_snapshot", id,
              Ok(Len(todo_snapshots) - Len(DeleteById(todo_snapshots, id)) > 0))
    /\ UNCHANGED <<contexts, scan_rev, cache, lock, journal, db_path, journal_mode, schema, log, waited>>

NextSeq ==
    \/ \E e \in SeqContextPool : SaveContext(e)
    \/ \E id \in SeqCtxIds : GetContext(id)
    \/ \E id \in SeqCtxIds : DeleteContext(id)
    \/ \E s \in SnapshotPool : SaveTodoSnapshot(s)
    \/ \E id \in SnapIds : GetTodoSnapshot(Caller, id)
    \/ \E id \in SnapIds : DeleteTodoSnapshot(id)
    \/ Return(Caller)

\* Both tables under the sequential calls of one process.
SpecSeq == Init /\ [][NextSeq]_vars

\* ------------------------------------------- point lookups: one process's calls

NextGet ==
    \/ \E e \in SeqContextPool : SaveContext(e)
    \/ \E id \in SeqCtxIds : GetContext(id)
    \/ \E id \in SeqCtxIds : DeleteContext(id)
    \/ \E s \in SnapshotPool : SaveTodoSnapshot(s)
    \/ \E id \in SnapIds : GetTodoSnapshot(Caller, id)
    \/ \E project_path \in Projects : GetActiveTodoSnapshot(Caller, project_path)
    \/ \E id \in SnapIds : DeleteTodoSnapshot(id)
    \/ Return(Caller)

\* Both tables under the saves, deletes and point lookups of one process.
SpecGet == Init /\ [][NextGet]_vars

\* ---------------------------------------------- searches: one process's calls

\* The entries and snapshots the caller saves before it searches: two ids in
\* three shapes that differ in title, type, tags and timestamp.
QueryPool ==
    UNION {{MkContext(id, <<1, 0>>, Code, <<"A", "b">>, << <<"x">> >>,
                      <<"/", "a">>, NULL, NULL),
            MkContext(id, <<1, 0>>, Error, <<"a", "_">>, << <<"x", "y">>, <<"z">> >>,
                      <<"/", "a">>, NULL, NULL),
            MkContext(id, <<2, 5>>, Code, <<"%">>, <<>>,
                      <<"/", "b">>, NULL, NULL)} : id \in SeqCtxIds}

QuerySnapshots ==
    {MkSnapshot(<<"s", "1">>, <<"/", "a">>, FALSE, <<1, 0>>, <<TodoQ>>),
     [MkSnapshot(<<"s", "1">>, <<"/", "a">>, FALSE, <<1, 0>>, <<>>)
        EXCEPT !.context = <<"A", "b">>]}

\* A query one byte too long for a LIKE pattern once it is wrapped in % ... %.
LongQuery == [i \in 1..(SQLITE_MAX_LIKE_PATTERN_LENGTH - 1) |-> "a"]

\* The free-text queries: empty, letters in either case, the wildcard
\* characters, text of the serialized tags and content, text that is nowhere,
\* and the long one.
Queries ==
    {<<>>, <<"a">>, <<"B">>, <<"_">>, <<"%">>, <<"x">>, <<"H", "I">>, <<"q">>,
     <<"y", ",", "z">>, LongQuery}

\* The tag lists get_contexts_by_tags is called with.
TagQueries ==
    {<<>>, << <<"x">> >>, << <<"z">>, <<"x">> >>, << <<"q">> >>, << <<>> >>,
     << <<"x", "y">> >>}

\* search_contexts(query, type_filter, limit)
SearchContexts(query, type_filter, limit) ==
    /\ Called("search_contexts",
              [query |-> query, type_filter |-> type_filter, limit |-> limit],
              search_contexts(contexts, query, type_filter, limit, scan_rev))
    /\ UNCHANGED <<contexts, todo_snapshots, scan_rev, cache, lock, journal, db_path, journal_mode, schema, log, waited>>

\* search_todo_snapshots(query, project_path, limit)
SearchTodoSnapshots(query, project_path, limit) ==
    /\ Called("search_todo_snapshots",
              [query |-> query, project_path |-> project_path, limit |-> limit],
              search_todo_snapshots(todo_snapshots, query, project_path, limit,
                                    scan_rev))
    /\ UNCHANGED <<contexts, todo_snapshots, scan_rev, cache, lock, journal, db_path, journal_mode, schema, log, waited>>

\* get_contexts_by_tags(tags, limit)
GetContextsByTags(tags, limit) ==
    /\ Called("get_contexts_by_tags", [tags |-> tags, limit |-> limit],
              get_contexts_by_tags(contexts, tags, limit, scan_rev))
    /\ UNCHANGED <<contexts, todo_snapshots, scan_rev, cache, lock, journal, db_path, journal_mode, schema, log, waited>>

NextQ ==
    \/ \E e \in QueryPool : SaveContext(e)
    \/ \E s \in QuerySnapshots : SaveTodoSnapshot(s)
    \/ \E q \in Queries, t \in {NULL, Code}, limit \in 1..MaxLimit :
          SearchContexts(q, t, limit)
    \/ \E q \in Queries, p \in {NULL, <<"/", "b">>}, limit \in 1..MaxLimit :
          SearchTodoSnapshots(q, p, limit)
    \/ \E tags \in TagQueries, limit \in 1..MaxLimit :
          GetContextsByTags(tags, limit)
    \/ Return(Caller)

\* The searches of the store under the sequential calls of one process.
SpecQ == InitCtx /\ [][NextQ]_vars

\* ------------------------------------- response updates: one process's calls

\* The responses the caller stores: the empty string and a text.
Responses == {<<>>, <<"u">>}

\* update_chatgpt_response(context_id, response): UPDATE and commit.
UpdateChatgptResponse(id, response) ==
    /\ pc[Caller] = "idle"
    /\ contexts' = update_chatgpt_response(contexts, id, response)
    /\ Called("update_chatgpt_response", [id |-> id, response |-> response],
              Ok(NULL))
    /\ UNCHANGED <<todo_snapshots, scan_rev, cache, lock, journal, db_path, journal_mode, schema, log, waited>>

\* update_claude_response(context_id, response): UPDATE and commit.
UpdateClaudeResponse(id, response) ==
    /\ pc[Caller] = "idle"
    /\ contexts' = update_claude_response(contexts, id, response)
    /\ Called("update_claude_response", [id |-> id, response |-> response],
              Ok(NULL))
    /\ UNCHANGED <<todo_snapshots, scan_rev, cache, lock, journal, db_path, journal_mode, schema, log, waited>>

NextUpd ==
    \/ \E e \in SeqContextPool : SaveContext(e)
    \/ \E id \in SeqCtxIds, r \in Responses : UpdateChatgptResponse(id, r)
    \/ \E id \in SeqCtxIds, r \in Responses : UpdateClaudeResponse(id, r)
    \/ \E id \in SeqCtxIds : GetContext(id)
    \/ \E id \in SeqCtxIds : DeleteContext(id)
    \/ Return(Caller)

\* The context store under saves, response updates, reads and deletes of one
\* process.
SpecUpd == Init /\ [][NextUpd]_vars

\* ----------------------------------------------- sessions: one process's calls

S1 == <<"s", "1">>
S2 == <<"s", "2">>

\* An entry of a session: the server gives every entry of a run its session id
\* and the run's start time (datetime.now(UTC)).
MkSessionContext(id, timestamp, project_path, session_id, session_timestamp) ==
    [MkContext(id, timestamp, Code, <<"T", "1">>, <<>>, project_path, NULL, NULL)
        EXCEPT !.session_id = session_id,
               !.session_timestamp = session_timestamp]

\* The entries the caller saves: each id as an entry of session s1 in project
\* /a (early and late), of s1 in project /b, of the later session s2, of the
\* session whose id is the empty string, and of no session.
SessionContexts ==
    UNION {{MkSessionContext(id, <<1, 0>>, <<"/", "a">>, S1, <<3, 0, 0>>),
            MkSessionContext(id, <<2, 5>>, <<"/", "a">>, S1, <<3, 0, 0>>),
            MkSessionContext(id, <<1, 0>>, <<"/", "b">>, S1, <<3, 0, 0>>),
            MkSessionContext(id, <<1, 5>>, <<"/", "a">>, S2, <<4, 5, 0>>),
            MkSessionContext(id, <<2, 0>>, <<"/", "a">>, <<>>, <<2, 0, 0>>),
            MkSessionContext(id, <<3, 0>>, <<"/", "a">>, NULL, NULL)} :
           id \in CtxIds}

\* list_sessions(project_path, limit)
ListSessions(project_path, limit, pick) ==
    /\ Called("list_sessions", [project_path |-> project_path, limit |-> limit],
              list_sessions(contexts, project_path, limit, pick, scan_rev))
    /\ UNCHANGED <<contexts, todo_snapshots, scan_rev, cache, lock, journal, db_path, journal_mode, schema, log, waited>>

\* get_session_contexts(session_id)
GetSessionContexts(session_id) ==
    /\ Called("get_session_contexts", session_id,
              get_session_contexts(contexts, session_id, scan_rev))
    /\ UNCHANGED <<contexts, todo_snapshots, scan_rev, cache, lock, journal, db_path, journal_mode, schema, log, waited>>

NextSess ==
    \/ \E e \in SessionContexts : SaveContext(e)
    \/ \E p \in Projects, limit \in 1..MaxLimit, pick \in {"min", "max"} :
          ListSessions(p, limit, pick)
    \/ \E sid \in {S1, S2, <<>>} : GetSessionContexts(sid)
    \/ Return(Caller)

\* The session queries of the context store under the sequential calls of one
\* process.
SpecSess == InitCtx /\ [][NextSess]_vars

\* ------------------------------------- timestamps of different UTC offsets

\* Timestamps a caller gives entries (timezone-aware datetimes): hour 4 at
\* UTC, hour 5 at UTC+2 (an earlier instant), hour 4 and a fraction at UTC,
\* hour 4 at UTC-1 (a later instant).
AwareTimestamps == {<<4, 0, 0>>, <<5, 0, 2>>, <<4, 5, 0>>, <<4, 0, -1>>}

TimedContexts ==
    {MkContext(id, ts, Code, <<"T", "1">>, <<>>, <<"/", "a">>, NULL, NULL) :
        id \in CtxIds, ts \in AwareTimestamps}

NextTS ==
    \/ \E e \in TimedContexts : SaveContext(e)
    \/ \E limit \in 1..MaxLimit, offset \in 0..1 :
          ListContexts(<<>>, <<>>, limit, offset)
    \/ Return(Caller)

\* The context store when entries carry timestamps of different UTC offsets.
SpecTS == InitCtx /\ [][NextTS]_vars

\* ------------------------------------ reads of rows written by another hand

\* Stored text of a structured column after an edit of the database file from
\* outside: empty, cut off after its first character.
BrokenTexts == {<<>>, <<"{">>}

\* The rows of contexts another writer may leave: content is NOT NULL, metadata
\* may be NULL (the schema of _init_db).
RawContextRows ==
    {[ContextRow(MkContext(id, <<1, 0>>, Code, <<"T", "1">>, <<>>, <<"/", "a">>,
                           NULL, NULL))
         EXCEPT !.content = content, !.metadata = metadata] :
        id \in SeqCtxIds,
        content \in {content_dump_json(ContentHi)} \cup BrokenTexts,
        metadata \in {Dumps(Meta1, TRUE), NULL} \cup BrokenTexts}

\* The rows of todo_snapshots another writer may leave: todos is NOT NULL,
\* metadata may be NULL.
RawSnapshotRows ==
    {[SnapshotRow(MkSnapshot(<<"s", "1">>, <<"/", "a">>, is_active, <<1, 0>>,
                             <<Todo1>>))
         EXCEPT !.todos = todos, !.metadata = metadata] :
        is_active \in BOOLEAN,
        todos \in {todos_dumps(<<Todo1>>)} \cup BrokenTexts,
        metadata \in {Dumps(Meta1, TRUE), NULL} \cup BrokenTexts}

\* Tables of at most MaxRows rows, the primary key id unique.
RawTables(rows) ==
    {t \in SeqsUpTo(rows, MaxRows) :
        \A i, j \in 1..Len(t) : t[i].id = t[j].id => i = j}

\* The store is opened on a database file that holds such rows in one table.
InitRaw ==
    /\ \/ contexts \in RawTables(RawContextRows) /\ todo_snapshots = <<>>
       \/ contexts = <<>> /\ todo_snapshots \in RawTables(RawSnapshotRows)
    /\ scan_rev \in BOOLEAN
    /\ pc = [p \in Procs |-> "idle"]
    /\ op = [p \in Procs |-> "none"]
    /\ arg = [p \in Procs |-> NoArg]
    /\ ret = [p \in Procs |-> NoRet]
    /\ cache = [p \in Procs |-> <<>>]
    /\ lock = "none"
    /\ journal = NoJournal
    /\ db_path = LocalPath
    /\ journal_mode = "delete"
    /\ schema = Schema
    /\ log = {}
    /\ conns = [p \in Procs |-> {LeftOpen}]
    /\ waited = [p \in Procs |-> 0]

\* list_todo_snapshots(project_path, limit, offset)
ListTodoSnapshots(project_path, limit, offset) ==
    /\ Called("list_todo_snapshots",
              [project_path |-> project_path, limit |-> limit, offset |-> offset],
              list_todo_snapshots(todo_snapshots, project_path, limit, offset,
                                  scan_rev))
    /\ UNCHANGED <<contexts, todo_snapshots, scan_rev, cache, lock, journal, db_path, journal_mode, schema, log, waited>>

NextRaw ==
    \/ \E id \in SeqCtxIds : GetContext(id)
    \/ \E limit \in 1..MaxLimit : ListContexts(NULL, NULL, limit, 0)
    \/ GetTodoSnapshot(Caller, <<"s", "1">>)
    \/ GetActiveTodoSnapshot(Caller, <<"/", "a">>)
    \/ \E limit \in 1..MaxLimit : ListTodoSnapshots(NULL, limit, 0)
    \/ Return(Caller)

\* The reads of one process on a database file edited from outside.
SpecRaw == InitRaw /\ [][NextRaw]_vars

\* ------------------------------- reads after writes: one process's calls

\* The free-text queries of the reads: the titles of the entries and the
\* contents of the todos.
ReadQueries == {<<"T", "1">>, <<"T", "2">>}

NextRW ==
    \/ \E e \in SeqContextPool : SaveContext(e)
    \/ \E id \in SeqCtxIds : DeleteContext(id)
    \/ \E id \in SeqCtxIds : GetContext(id)
    \/ \E limit \in 1..MaxLimit : ListContexts(NULL, NULL, limit, 0)
    \/ \E q \in ReadQueries, limit \in 1..MaxLimit : SearchContexts(q, NULL, limit)
    \/ \E s \in SnapshotPool : SaveTodoSnapshot(s)
    \/ \E id \in SnapIds : DeleteTodoSnapshot(id)
    \/ \E id \in SnapIds : GetTodoSnapshot(Caller, id)
    \/ \E limit \in 1..MaxLimit : ListTodoSnapshots(NULL, limit, 0)
    \/ \E q \in ReadQueries, limit \in 1..MaxLimit :
          SearchTodoSnapshots(q, NULL, limit)
    \/ Return(Caller)

\* Both tables under the writes and the reads of one process.
SpecRW == Init /\ [][NextRW]_vars

\* ----------------------------------------------------- opening the store

\* The folder names of file-synchronization clients that mark a path as
\* cloud-synced.
CLOUD_SYNC_MARKERS == {"Dropbox", "Google Drive", "OneDrive", "iCloud Drive"}

\* Mutant of is_cloud_synced_path: the segments are compared with the markers
\* in lower case.
is_cloud_synced_path_lower(path) ==
    \E i \in 1..Len(path) : path[i] \in {"dropbox", "google drive", "onedrive",
                                         "icloud drive"}

\* _is_cloud_synced_path(): a segment of the path is one of the markers,
\* letter for letter.
is_cloud_synced_path(path) ==
    \E i \in 1..Len(path) : path[i] \in CLOUD_SYNC_MARKERS

\* What the engine answers to PRAGMA journal_mode=WAL: the mode it is in
\* afterwards, an OperationalError, or no row.
JournalReplies == {"wal", "delete", "error", "none"}

\* _try_enable_wal(conn): WAL is requested and counts as enabled only when the
\* answer read back is wal.
try_enable_wal(reply) == reply = "wal"

CloudWarning == [level |-> "WARNING", text |-> "cloud-synced directory"]
FallbackNote == [level |-> "DEBUG", text |-> "WAL mode not available"]

\* _configure_connection(conn): the journal mode of the file afterwards and
\* the messages logged.
configure_connection(path, reply) ==
    IF is_cloud_synced_path(path)
    THEN [journal_mode |-> "delete", logged |-> {CloudWarning}]
    ELSE IF try_enable_wal(reply)
         THEN [journal_mode |-> "wal", logged |-> {}]
         ELSE [journal_mode |-> "delete", logged |-> {FallbackNote}]

\* The paths a store is opened on: local, in a synced folder, and local with a
\* segment that differs from a marker in case only.
OpenPaths == {LocalPath, DropboxPath, <<"tmp", "dropbox", "test.db">>,
              <<"iCloud Drive", "test.db">>}

\* storage = ContextStorage(db_path), on a path with or without a database
\* file: the connection of _init_db is configured, the tables and indexes are
\* created where they do not exist, and the connection is left open.
Construct(reply) ==
    /\ pc[Caller] \in {"start", "idle"}
    /\ LET file == init_db([schema |-> schema, contexts |-> contexts,
                            todo_snapshots |-> todo_snapshots])
           configured == configure_connection(db_path, reply)
       IN  /\ schema' = file.schema
           /\ contexts' = file.contexts
           /\ todo_snapshots' = file.todo_snapshots
           /\ journal_mode' = configured.journal_mode
           /\ log' = log \cup configured.logged
    /\ pc' = [pc EXCEPT ![Caller] = "done"]
    /\ op' = [op EXCEPT ![Caller] = "__init__"]
    /\ arg' = [arg EXCEPT ![Caller] = [db_path |-> db_path, reply |-> reply]]
    /\ ret' = [ret EXCEPT ![Caller] = Ok(NULL)]
    /\ conns' = [conns EXCEPT ![Caller] = LeaveOpen(@)]
    /\ UNCHANGED <<scan_rev, cache, lock, journal, db_path, waited>>

\* Before the caller opens the store: the path holds no file, or a database
\* file of an earlier run, in either journal mode.
InitOpen ==
    /\ contexts = <<>>
    /\ todo_snapshots = <<>>
    /\ scan_rev = FALSE
    /\ pc = [p \in Procs |-> IF p = Caller THEN "start" ELSE "idle"]
    /\ op = [p \in Procs |-> "none"]
    /\ arg = [p \in Procs |-> NoArg]
    /\ ret = [p \in Procs |-> NoRet]
    /\ cache = [p \in Procs |-> <<>>]
    /\ lock = "none"
    /\ journal = NoJournal
    /\ db_path \in OpenPaths
    /\ \/ schema = {} /\ journal_mode = "delete"
       \/ schema = Schema /\ journal_mode \in {"delete", "wal"}
    /\ log = {}
    /\ conns = [p \in Procs |-> {}]
    /\ waited = [p \in Procs |-> 0]

NextOpen ==
    \/ \E reply \in JournalReplies : Construct(reply)
    \/ \E e \in SeqContextPool : SaveContext(e)
    \/ \E id \in SeqCtxIds : DeleteContext(id)
    \/ \E s \in SnapshotPool : SaveTodoSnapshot(s)
    \/ Return(Caller)

\* One process opens the store, again and again, and writes to it.
SpecOpen == InitOpen /\ [][NextOpen]_vars

\* ------------------------------------------- writers that wait for the lock

\* sqlite3.connect(self.db_path): the connection's busy timeout is the default
\* of the timeout parameter, 5.0 seconds.
BUSY_TIMEOUT_MS == 5000

\* The number of times the busy handler sleeps and tries again within the
\* timeout.
BusyTicks == 2
BusySleep == (BUSY_TIMEOUT_MS + BusyTicks - 1) \div BusyTicks

\* sqlite3.OperationalError: database is locked
DatabaseIsLocked ==
    [ok |-> FALSE, error |-> "OperationalError", message |-> "database is locked"]

\* The process is at the first write of its save, which needs the lock.
AtFirstWrite(p) == pc[p] = "save_begin"

\* The lock is held by another connection: the busy handler sleeps and the
\* statement tries again.
BusyWait(p) ==
    /\ AtFirstWrite(p)
    /\ lock \notin {"none", p}
    /\ waited[p] < BUSY_TIMEOUT_MS
    /\ waited' = [waited EXCEPT ![p] =
                     IF @ + BusySleep > BUSY_TIMEOUT_MS THEN BUSY_TIMEOUT_MS
                     ELSE @ + BusySleep]
    /\ UNCHANGED <<contexts, todo_snapshots, scan_rev, pc, op, arg, ret, cache,
                   lock, journal, db_path, journal_mode, schema, log, conns>>

\* Mutant of BusyFail: a busy timeout of zero, the statement fails as soon as
\* it finds the lock held.
BusyFail_at_once(p) ==
    /\ AtFirstWrite(p)
    /\ lock \notin {"none", p}
    /\ ret' = [ret EXCEPT ![p] = DatabaseIsLocked]
    /\ pc' = [pc EXCEPT ![p] = "done"]
    /\ waited' = [waited EXCEPT ![p] = 0]
    /\ UNCHANGED <<contexts, todo_snapshots, scan_rev, op, arg, cache, lock,
                   journal, db_path, journal_mode, schema, log, conns>>

\* The lock is still held when the timeout has passed: the statement raises
\* OperationalError, which no method of ContextStorage catches; the call ends
\* with it and nothing was written.
BusyFail(p) ==
    /\ AtFirstWrite(p)
    /\ lock \notin {"none", p}
    /\ waited[p] >= BUSY_TIMEOUT_MS
    /\ ret' = [ret EXCEPT ![p] = DatabaseIsLocked]
    /\ pc' = [pc EXCEPT ![p] = "done"]
    /\ waited' = [waited EXCEPT ![p] = 0]
    /\ UNCHANGED <<contexts, todo_snapshots, scan_rev, op, arg, cache, lock,
                   journal, db_path, journal_mode, schema, log, conns>>

\* The snapshots the two writers save.
BusySnapshots ==
    {MkSnapshot(<<"s", "1">>, <<"/", "a">>, a, <<1, 0>>, <<>>) : a \in BOOLEAN}

\* The statement of a process that needs the lock: it takes the lock, or
\* waits, or gives up.
FirstWrite(p) ==
    \/ ExecDeactivate(p)
    \/ ExecInsert(p)
    \/ BusyWait(p)
    \/ BusyFail(p)

NextBusy ==
    \E p \in Procs :
        \/ \E s \in BusySnapshots : CallSaveTodoSnapshot(p, s)
        \/ ExecDeactivate(p)
        \/ ExecInsert(p)
        \/ BusyWait(p)
        \/ BusyFail(p)
        \/ Commit(p)
        \/ Return(p)

\* Two processes save snapshots.  A statement that is running goes on: it
\* gets the lock, or its busy handler wakes up; a process may stay in its
\* transaction for any time.  Each such step changes pc or waited.
SpecBusy ==
    Init /\ [][NextBusy]_vars /\ \A p \in Procs : WF_<<pc, waited>>(FirstWrite(p))

\* --------------------------------------------- the connections of a process

\* The interpreter finalizes the unreferenced connection objects of a process,
\* which closes them; when it does so is up to its garbage collector.
CollectGarbage(p) ==
    /\ LeftOpen \in conns[p]
    /\ conns' = [conns EXCEPT ![p] = @ \ {LeftOpen}]
    /\ UNCHANGED <<contexts, todo_snapshots, scan_rev, pc, op, arg, ret, cache,
                   lock, journal, db_path, journal_mode, schema, log, waited>>

NextConn ==
    \E p \in Procs :
        \/ \E s \in BusySnapshots : CallSaveTodoSnapshot(p, s)
        \/ ExecDeactivate(p)
        \/ ExecInsert(p)
        \/ CallDeleteTodoSnapshot(p, <<"s", "1">>)
        \/ ExecDelete(p)
        \/ Commit(p)
        \/ GetTodoSnapshot(p, <<"s", "1">>)
        \/ Return(p)
        \/ CollectGarbage(p)

\* The operations of two processes and the connections they hold.
SpecConn == Init /\ [][NextConn]_vars

\* --------------------------------- searches of todos: one process's calls

\* The snapshots the caller saves before it searches its todos: a todo whose
\* content holds a quote and a backslash, a plain todo, and a context that
\* holds a quote and a backslash.
TodoSearchSnapshots ==
    {MkSnapshot(<<"s", "1">>, <<"/", "a">>, FALSE, <<1, 0>>, <<TodoQ>>),
     MkSnapshot(<<"s", "1">>, <<"/", "b">>, FALSE, <<1, 0>>, <<Todo1, TodoQ>>),
     MkSnapshot(<<"s", "2">>, <<"/", "b">>, FALSE, <<2, 5>>, <<Todo1>>),
     [MkSnapshot(<<"s", "2">>, <<"/", "a">>, FALSE, <<2, 5>>, <<>>)
        EXCEPT !.context = TodoQ.content]}

\* The texts searched for: parts of the contents, with and without a quote or
\* a backslash.
TodoQueries ==
    {<<"T">>, <<"1">>, <<",">>, <<"\\", ",">>, <<"\"", "\\">>, TodoQ.content}

NextTodoQ ==
    \/ \E s \in TodoSearchSnapshots : SaveTodoSnapshot(s)
    \/ \E q \in TodoQueries, p \in {NULL, <<"/", "b">>}, limit \in 1..MaxLimit :
          SearchTodoSnapshots(q, p, limit)
    \/ Return(Caller)

\* The searches of the todo snapshots under the sequential calls of one
\* process.
SpecTodoQ == InitCtx /\ [][NextTodoQ]_vars

\* ------------------------------------------- second opinions: ask_chatgpt,
\* ------------------------------------------- ask_claude (server tool, CLI)

Server == "server"
Cli == "cli"
Frontends == {Server, Cli}

AskChatgpt == "ask_chatgpt"
AskClaude == "ask_claude"
AskTools == {AskChatgpt, AskClaude}

\* The question of a call: not given, the empty string, a text.
Questions == {NULL, <<>>, <<"q">>}

\* if not question: the response is stored.
\* Mutant of Stores: the response is stored whatever the question.
Stores_always(question) == TRUE

Stores(question) == ~Truthy(question)

ValueError == [ok |-> FALSE, error |-> "ValueError"]
TypeError == [ok |-> FALSE, error |-> "TypeError"]
ApiError == [ok |-> FALSE, error |-> "Exception"]
NotFound == [ok |-> FALSE, error |-> "not found"]

\* ChatGPTClient() raises ValueError without an API key;
\* get_second_opinion(self, context) takes no question, so the call
\* get_second_opinion(context, question) raises TypeError before any request
\* is sent.
ChatGPTOutcomes == {ValueError, TypeError}

\* ClaudeClient() raises ValueError without an API key;
\* get_second_opinion(context, question) returns the text of the answer, or
\* the request fails.
ClaudeOutcomes == {ValueError, ApiError} \cup {Ok(r) : r \in Responses}

ClientOutcomes(tool) ==
    IF tool = AskChatgpt THEN ChatGPTOutcomes ELSE ClaudeOutcomes

\* context = storage.get_context(context_id): the read of the call, finished
\* when the next statement runs. A missing entry ends the call.
\* Mutant of AskRead: the read's transaction stays open over the call.
AskRead_open(frontend, tool, id, question) ==
    LET context == get_context(contexts, id) IN
    /\ pc[Caller] = "idle"
    /\ context.ok
    /\ op' = [op EXCEPT ![Caller] = tool]
    /\ arg' = [arg EXCEPT ![Caller] =
                  [frontend |-> frontend, context_id |-> id,
                   question |-> question, context |-> context.v]]
    /\ conns' = [conns EXCEPT ![Caller] = Connect(@)]
    /\ lock = "none"
    /\ lock' = Caller
    /\ IF context.v = <<>>
       THEN /\ pc' = [pc EXCEPT ![Caller] = "done"]
            /\ ret' = [ret EXCEPT ![Caller] = NotFound]
       ELSE /\ pc' = [pc EXCEPT ![Caller] = "ask_call"]
            /\ UNCHANGED ret
    /\ UNCHANGED <<contexts, todo_snapshots, scan_rev, cache, journal,
                   db_path, journal_mode, schema, log, waited>>

AskRead(frontend, tool, id, question) ==
    LET context == get_context(contexts, id) IN
    /\ pc[Caller] = "idle"
    /\ context.ok
    /\ op' = [op EXCEPT ![Caller] = tool]
    /\ arg' = [arg EXCEPT ![Caller] =
                  [frontend |-> frontend, context_id |-> id,
                   question |-> question, context |-> context.v]]
    /\ conns' = [conns EXCEPT ![Caller] = LeaveOpen(Connect(@))]
    /\ IF context.v = <<>>
       THEN /\ pc' = [pc EXCEPT ![Caller] = "done"]
            /\ ret' = [ret EXCEPT ![Caller] = NotFound]
       ELSE /\ pc' = [pc EXCEPT ![Caller] = "ask_call"]
            /\ UNCHANGED ret
    /\ UNCHANGED <<contexts, todo_snapshots, scan_rev, cache, lock, journal,
                   db_path, journal_mode, schema, log, waited>>

\* client = ...Client(); response = client.get_second_opinion(context,
\* question): the call of the external API. With a response and no question
\* the update follows, with a response and a question the call ends. The
\* server catches ValueError and answers with its message, any other exception
\* ends the tool call; the CLI catches every exception and exits with status
\* 1: an exception ends the call in either frontend.
AskCall(outcome) ==
    /\ pc[Caller] = "ask_call"
    /\ outcome \in ClientOutcomes(op[Caller])
    /\ ret' = [ret EXCEPT ![Caller] = outcome]
    /\ pc' = [pc EXCEPT ![Caller] =
                 IF outcome.ok /\ Stores(arg[Caller].question)
                 THEN "ask_store" ELSE "done"]
    /\ UNCHANGED <<contexts, todo_snapshots, scan_rev, op, arg, cache, lock,
                   journal, db_path, journal_mode, schema, log, conns, waited>>

\* Mutant of AskStore: the entry as it was read is saved again with the
\* response in it.
AskStore_resave ==
    /\ pc[Caller] = "ask_store"
    /\ lock = "none"
    /\ lock' = Caller
    /\ journal' = [hot |-> TRUE, contexts |-> contexts]
    /\ cache' = [cache EXCEPT ![Caller] =
                    InsertOrReplace(contexts,
                        ContextRow(
                            IF op[Caller] = AskChatgpt
                            THEN [arg[Caller].context[1] EXCEPT
                                     !.chatgpt_response = ret[Caller].v]
                            ELSE [arg[Caller].context[1] EXCEPT
                                     !.claude_response = ret[Caller].v]))]
    /\ conns' = [conns EXCEPT ![Caller] = Connect(@)]
    /\ pc' = [pc EXCEPT ![Caller] = "ask_commit"]
    /\ UNCHANGED <<contexts, todo_snapshots, scan_rev, op, arg, ret, db_path,
                   journal_mode, schema, log, waited>>

\* storage.update_chatgpt_response(context_id, response) or
\* storage.update_claude_response(context_id, response): a new connection,
\* whose UPDATE begins a transaction and takes the write lock.
AskStore ==
    /\ pc[Caller] = "ask_store"
    /\ lock = "none"
    /\ lock' = Caller
    /\ journal' = [hot |-> TRUE, contexts |-> contexts]
    /\ cache' = [cache EXCEPT ![Caller] =
                    IF op[Caller] = AskChatgpt
                    THEN update_chatgpt_response(contexts,
                             arg[Caller].context_id, ret[Caller].v)
                    ELSE update_claude_response(contexts,
                             arg[Caller].context_id, ret[Caller].v)]
    /\ conns' = [conns EXCEPT ![Caller] = Connect(@)]
    /\ pc' = [pc EXCEPT ![Caller] = "ask_commit"]
    /\ UNCHANGED <<contexts, todo_snapshots, scan_rev, op, arg, ret, db_path,
                   journal_mode, schema, log, waited>>

\* The write lock is held by another process for the whole busy timeout: the
\* UPDATE raises OperationalError and nothing is written.
AskStoreBusy ==
    /\ pc[Caller] = "ask_store"
    /\ lock \notin {"none", Caller}
    /\ ret' = [ret EXCEPT ![Caller] = DatabaseIsLocked]
    /\ conns' = [conns EXCEPT ![Caller] = Connect(@)]
    /\ pc' = [pc EXCEPT ![Caller] = "done"]
    /\ UNCHANGED <<contexts, todo_snapshots, scan_rev, op, arg, cache, lock,
                   journal, db_path, journal_mode, schema, log, waited>>

\* conn.commit() of the update.
AskCommit ==
    /\ pc[Caller] = "ask_commit"
    /\ contexts' = cache[Caller]
    /\ cache' = [cache EXCEPT ![Caller] = <<>>]
    /\ lock' = "none"
    /\ journal' = NoJournal
    /\ pc' = [pc EXCEPT ![Caller] = "done"]
    /\ UNCHANGED <<todo_snapshots, scan_rev, op, arg, ret, db_path,
                   journal_mode, schema, log, conns, waited>>

Other == "p2"

NextAsk ==
    \/ \E e \in SeqContextPool : SaveContext(e)
    \/ \E f \in Frontends, t \in AskTools, id \in SeqCtxIds, q \in Questions :
          AskRead(f, t, id, q)
    \/ \E outcome \in ChatGPTOutcomes \cup ClaudeOutcomes : AskCall(outcome)
    \/ AskStore
    \/ AskStoreBusy
    \/ AskCommit
    \/ Return(Caller)
    \/ \E s \in BusySnapshots : CallSaveTodoSnapshot(Other, s)
    \/ ExecDeactivate(Other)
    \/ ExecInsert(Other)
    \/ Commit(Other)
    \/ Return(Other)

\* The second-opinion calls of one process beside the saves of another.
SpecAsk == Init /\ [][NextAsk]_vars

\* ------------------------------------------ the server's context_search tool

\* The arguments of the tool: each may be absent; the type is one of the
\* schema's values.
SearchQueries == {NULL, <<>>, <<"a">>, <<"q">>}
SearchTags == {NULL, <<>>, << <<"x">> >>, << <<"q">> >>}
SearchTypes == {NULL, Code, Error}

\* One entry of the response: the two icons, [type], the title, the tags in
\* brackets when there are any, the id and the timestamp.
FormatContext(ctx) ==
    [gpt |-> Truthy(ctx.chatgpt_response),
     claude |-> Truthy(ctx.claude_response),
     type |-> ctx.type,
     title |-> ctx.title,
     tags_str |-> IF ctx.tags # <<>>
                  THEN <<" ", "[">> \o Flatten(ctx.tags, <<",", " ">>) \o <<"]">>
                  ELSE <<>>,
     id |-> ctx.id,
     timestamp |-> isoformat(ctx.timestamp)]

\* _format_contexts_response(contexts): "No contexts found." or the number
\* found and an entry for each context.
format_contexts_response(contexts_found) ==
    [found |-> Len(contexts_found),
     lines |-> [i \in 1..Len(contexts_found) |-> FormatContext(contexts_found[i])]]

\* The branch of the tool: by tags when tags are given, else by query when a
\* query is given, else the listing.
SearchBranch(table, query, tags, type_filter, limit, rev) ==
    IF Truthy(tags)
    THEN get_contexts_by_tags(table, tags, limit, rev)
    ELSE IF Truthy(query)
    THEN search_contexts(table, query, type_filter, limit, rev)
    ELSE list_contexts(table, type_filter, NULL, limit, 0, rev)

\* call_tool("context_search", arguments)
ContextSearch(query, tags, type_filter, limit) ==
    LET found == SearchBranch(contexts, query, tags, type_filter, limit, scan_rev)
    IN
    /\ Called("context_search",
              [query |-> query, tags |-> tags, type |-> type_filter,
               limit |-> limit],
              IF found.ok THEN Ok(format_contexts_response(found.v)) ELSE Fail)
    /\ UNCHANGED <<contexts, todo_snapshots, scan_rev, cache, lock, journal,
                   db_path, journal_mode, schema, log, waited>>

NextSearch ==
    \/ \E e \in QueryPool : SaveContext(e)
    \/ \E q \in SearchQueries, tags \in SearchTags, t \in SearchTypes,
          limit \in 1..MaxLimit : ContextSearch(q, tags, t, limit)
    \/ Return(Caller)

\* The context_search tool under the sequential calls of one process.
SpecSearch == InitCtx /\ [][NextSearch]_vars

\* ------------------------------- snapshots that refer to a context: one
\* ------------------------------- process's calls

\* PRAGMA foreign_keys of a new connection: the methods open their connections
\* with sqlite3.connect(self.db_path) and set no pragma, so the FOREIGN KEY
\* clause of todo_snapshots is parsed and not enforced.
foreign_keys == 0

IntegrityError == [ok |-> FALSE, error |-> "IntegrityError"]

\* FOREIGN KEY (session_context_id) REFERENCES contexts(id) on the insert of a
\* row of todo_snapshots.
\* Mutant of InsertAllowed: the clause is enforced.
InsertAllowed_enforced(parents, row) ==
    \/ row.session_context_id = NULL
    \/ row.session_context_id \in Ids(parents)

InsertAllowed(parents, row) ==
    \/ foreign_keys = 0
    \/ row.session_context_id = NULL
    \/ row.session_context_id \in Ids(parents)

\* The same clause on the delete of a row of contexts.
DeleteAllowed(children, id) ==
    \/ foreign_keys = 0
    \/ \A i \in 1..Len(children) : children[i].session_context_id # id

\* The snapshots that refer to a context: to one that may be stored, to one
\* that never is, and to none.
Referents == {NULL, <<"c", "1">>, <<"c", "9">>}
RefSnapshots ==
    {[MkSnapshot(id, <<"/", "a">>, a, <<1, 0>>, <<Todo1>>)
        EXCEPT !.session_context_id = c] :
        id \in {<<"s", "1">>, <<"s", "2">>}, a \in BOOLEAN, c \in Referents}

\* save_todo_snapshot(snapshot) of a snapshot with a session_context_id.
SaveTodoSnapshotRef(s) ==
    /\ pc[Caller] = "idle"
    /\ IF InsertAllowed(contexts, SnapshotRow(s))
       THEN /\ todo_snapshots' = save_todo_snapshot(todo_snapshots, s)
            /\ Called("save_todo_snapshot", s, Ok(NULL))
       ELSE /\ todo_snapshots' = todo_snapshots
            /\ Called("save_todo_snapshot", s, IntegrityError)
    /\ UNCHANGED <<contexts, scan_rev, cache, lock, journal, db_path,
                   journal_mode, schema, log, waited>>

\* delete_context(context_id) of a context that snapshots may refer to.
DeleteContextRef(id) ==
    /\ pc[Caller] = "idle"
    /\ IF DeleteAllowed(todo_snapshots, id)
       THEN /\ contexts' = DeleteById(contexts, id)
            /\ Called("delete_context", id,
                      Ok(Len(contexts) - Len(DeleteById(contexts, id)) > 0))
       ELSE /\ contexts' = contexts
            /\ Called("delete_context", id, IntegrityError)
    /\ UNCHANGED <<todo_snapshots, scan_rev, cache, lock, journal, db_path,
                   journal_mode, schema, log, waited>>

NextRef ==
    \/ \E e \in SeqContextPool : SaveContext(e)
    \/ \E id \in SeqCtxIds : DeleteContextRef(id)
    \/ \E s \in RefSnapshots : SaveTodoSnapshotRef(s)
    \/ \E id \in {<<"s", "1">>, <<"s", "2">>} : GetTodoSnapshot(Caller, id)
    \/ Return(Caller)

\* Contexts and the snapshots that refer to them under the sequential calls
\* of one process.
SpecRef == Init /\ [][NextRef]_vars

\* ------------------------------ saves beside other snapshots: one process's
\* ------------------------------ calls

\* Three snapshots of two projects, each saved active or not; the second is
\* saved in either project.
FrameSnapshots ==
    {MkSnapshot(<<"s", "1">>, <<"/", "a">>, a, <<1, 0>>, <<Todo1>>) : a \in BOOLEAN}
    \cup {MkSnapshot(<<"s", "2">>, p, a, <<1, 0>>, <<>>) :
             p \in Projects, a \in BOOLEAN}
    \cup {MkSnapshot(<<"s", "3">>, <<"/", "b">>, a, <<2, 5>>, <<Todo1>>) :
             a \in BOOLEAN}

NextFrame ==
    \/ \E e \in SeqContextPool : e.id = <<"c", "1">> /\ SaveContext(e)
    \/ \E s \in FrameSnapshots : SaveTodoSnapshot(s)
    \/ \E id \in {<<"s", "1">>, <<"s", "3">>} : DeleteTodoSnapshot(id)
    \/ Return(Caller)

\* Saves and deletes of snapshots beside a stored context under the sequential
\* calls of one process.
SpecFrame == Init /\ [][NextFrame]_vars

\* ------------------------------------ saves that fail or crash: processes

\* A rollback journal is on disk and no process holds the write lock: the
\* process that wrote it is gone.
HotJournal == journal.hot /\ lock = "none"

\* The first statement of a connection finds the hot journal, plays the
\* original pages back into the file and deletes the journal.
RecoverOnOpen(p) ==
    /\ pc[p] \in {"idle", "save_begin"}
    /\ HotJournal
    /\ todo_snapshots' = journal.todo
    /\ journal' = NoJournal
    /\ UNCHANGED <<contexts, scan_rev, pc, op, arg, ret, cache, lock, db_path,
                   journal_mode, schema, log, conns, waited>>

\* The errors of an active save after its UPDATE: json.dumps of the todos or
\* of the metadata raises TypeError, the INSERT raises IntegrityError.
SaveErrors == {TypeError, IntegrityError}

\* Mutant of FailInsert: the connection commits what it has when the block is
\* left with the exception.
FailInsert_commit(p, error) ==
    /\ pc[p] = "save_insert"
    /\ todo_snapshots' = cache[p]
    /\ cache' = [cache EXCEPT ![p] = <<>>]
    /\ lock' = "none"
    /\ journal' = NoJournal
    /\ ret' = [ret EXCEPT ![p] = error]
    /\ pc' = [pc EXCEPT ![p] = "done"]
    /\ UNCHANGED <<contexts, scan_rev, op, arg, db_path, journal_mode,
                   schema, log, conns, waited>>

\* The INSERT OR REPLACE of an active save raises, while its arguments are
\* serialized or in SQLite: the with-block of the connection is left with the
\* exception and rolls the transaction back; the UPDATE is dropped with the
\* connection's changes and the lock is released.
FailInsert(p, error) ==
    /\ pc[p] = "save_insert"
    /\ cache' = [cache EXCEPT ![p] = <<>>]
    /\ lock' = "none"
    /\ journal' = NoJournal
    /\ ret' = [ret EXCEPT ![p] = error]
    /\ pc' = [pc EXCEPT ![p] = "done"]
    /\ UNCHANGED <<contexts, todo_snapshots, scan_rev, op, arg, db_path,
                   journal_mode, schema, log, conns, waited>>

\* What a process that dies in its transaction may leave in the file: nothing
\* of its changes, all of them, or the pages of the UPDATE alone.
TornFiles(p) ==
    {todo_snapshots, cache[p]}
    \cup (IF arg[p].is_active
          THEN {Deactivate(todo_snapshots, arg[p].project_path)}
          ELSE {})

\* The process dies between its first write and the end of its commit: the
\* journal with the original pages stays on disk, the operating system drops
\* the lock and the connections.
Crash(p) ==
    /\ pc[p] \in {"save_insert", "commit"}
    /\ todo_snapshots' \in TornFiles(p)
    /\ cache' = [cache EXCEPT ![p] = <<>>]
    /\ lock' = "none"
    /\ conns' = [conns EXCEPT ![p] = {}]
    /\ pc' = [pc EXCEPT ![p] = "crashed"]
    /\ UNCHANGED <<contexts, scan_rev, op, arg, ret, journal, db_path,
                   journal_mode, schema, log, waited>>

\* A new process takes the place of the one that died.
Restart(p) ==
    /\ pc[p] = "crashed"
    /\ pc' = [pc EXCEPT ![p] = "idle"]
    /\ op' = [op EXCEPT ![p] = "none"]
    /\ arg' = [arg EXCEPT ![p] = NoArg]
    /\ ret' = [ret EXCEPT ![p] = NoRet]
    /\ UNCHANGED <<contexts, todo_snapshots, scan_rev, cache, lock, journal,
                   db_path, journal_mode, schema, log, conns, waited>>

\* The snapshots the processes save: two ids of one project, active or not.
FailSnapshots ==
    {MkSnapshot(id, <<"/", "a">>, a, <<1, 0>>, <<>>) :
        id \in {<<"s", "1">>, <<"s", "2">>}, a \in BOOLEAN}

NextFail ==
    \E p \in Procs :
        \/ \E s \in FailSnapshots : CallSaveTodoSnapshot(p, s)
        \/ RecoverOnOpen(p)
        \/ ~HotJournal /\ ExecDeactivate(p)
        \/ ~HotJournal /\ ExecInsert(p)
        \/ \E error \in SaveErrors : FailInsert(p, error)
        \/ Commit(p)
        \/ Crash(p)
        \/ Restart(p)
        \/ ~HotJournal /\ GetActiveTodoSnapshot(p, <<"/", "a">>)
        \/ Return(p)

\* The todo-snapshot store used by two processes whose saves may fail or die.
SpecFail == Init /\ [][NextFail]_vars

\* ------------------------------------ response updates: two processes

UpdateChatgpt == "update_chatgpt_response"
UpdateClaude == "update_claude_response"

\* The responses the two processes store.
ConcurrentResponses == {<<"u">>, <<"v">>}

\* A process calls update_chatgpt_response(id, response) or
\* update_claude_response(id, response): the connection is opened.
CallUpdateResponse(p, name, id, response) ==
    /\ pc[p] = "idle"
    /\ pc' = [pc EXCEPT ![p] = "update_begin"]
    /\ op' = [op EXCEPT ![p] = name]
    /\ arg' = [arg EXCEPT ![p] = [id |-> id, response |-> response]]
    /\ conns' = [conns EXCEPT ![p] = Connect(@)]
    /\ UNCHANGED <<contexts, todo_snapshots, scan_rev, ret, cache, lock,
                   journal, db_path, journal_mode, schema, log, waited>>

\* Mutant of ExecUpdateResponse: the statement writes both response columns,
\* the other one as the caller last knew it.
ExecUpdateResponse_both(p) ==
    /\ pc[p] = "update_begin"
    /\ lock = "none"
    /\ lock' = p
    /\ journal' = [hot |-> TRUE, contexts |-> contexts]
    /\ cache' = [cache EXCEPT ![p] =
                    update_claude_response(
                        update_chatgpt_response(contexts, arg[p].id,
                            IF op[p] = UpdateChatgpt THEN arg[p].response ELSE NULL),
                        arg[p].id,
                        IF op[p] = UpdateClaude THEN arg[p].response ELSE NULL)]
    /\ pc' = [pc EXCEPT ![p] = "update_commit"]
    /\ UNCHANGED <<contexts, todo_snapshots, scan_rev, op, arg, ret, db_path,
                   journal_mode, schema, log, conns, waited>>

\* UPDATE contexts SET <column> = ? WHERE id = ?: the statement begins the
\* transaction, takes the write lock and works on the rows as they are then.
ExecUpdateResponse(p) ==
    /\ pc[p] = "update_begin"
    /\ lock = "none"
    /\ lock' = p
    /\ journal' = [hot |-> TRUE, contexts |-> contexts]
    /\ cache' = [cache EXCEPT ![p] =
                    IF op[p] = UpdateChatgpt
                    THEN update_chatgpt_response(contexts, arg[p].id, arg[p].response)
                    ELSE update_claude_response(contexts, arg[p].id, arg[p].response)]
    /\ pc' = [pc EXCEPT ![p] = "update_commit"]
    /\ UNCHANGED <<contexts, todo_snapshots, scan_rev, op, arg, ret, db_path,
                   journal_mode, schema, log, conns, waited>>

\* The write lock is held by the other process for the whole busy timeout:
\* the UPDATE raises OperationalError and nothing is written.
UpdateResponseBusy(p) ==
    /\ pc[p] = "update_begin"
    /\ lock \notin {"none", p}
    /\ ret' = [ret EXCEPT ![p] = DatabaseIsLocked]
    /\ pc' = [pc EXCEPT ![p] = "done"]
    /\ UNCHANGED <<contexts, todo_snapshots, scan_rev, op, arg, cache, lock,
                   journal, db_path, journal_mode, schema, log, conns, waited>>

\* conn.commit() of the update.
CommitUpdateResponse(p) ==
    /\ pc[p] = "update_commit"
    /\ contexts' = cache[p]
    /\ cache' = [cache EXCEPT ![p] = <<>>]
    /\ lock' = "none"
    /\ journal' = NoJournal
    /\ ret' = [ret EXCEPT ![p] = Ok(NULL)]
    /\ pc' = [pc EXCEPT ![p] = "done"]
    /\ UNCHANGED <<todo_snapshots, scan_rev, op, arg, db_path, journal_mode,
                   schema, log, conns, waited>>

\* The stored entries the updates meet: the first id alone or both ids, with
\* and without earlier responses.
StoredBefore ==
    {<<ContextRow(e)>> : e \in {x \in SeqContextPool : x.id = <<"c", "1">>}}
    \cup {<<ContextRow(e1), ContextRow(e2)>> :
             e1 \in {x \in SeqContextPool : x.id = <<"c", "1">>},
             e2 \in {x \in SeqContextPool : x.id = <<"c", "2">>}}

InitConcurrent ==
    /\ contexts \in StoredBefore
    /\ todo_snapshots = <<>>
    /\ scan_rev = FALSE
    /\ pc = [p \in Procs |-> "idle"]
    /\ op = [p \in Procs |-> "none"]
    /\ arg = [p \in Procs |-> NoArg]
    /\ ret = [p \in Procs |-> NoRet]
    /\ cache = [p \in Procs |-> <<>>]
    /\ lock = "none"
    /\ journal = NoJournal
    /\ db_path = LocalPath
    /\ journal_mode = "delete"
    /\ schema = Schema
    /\ log = {}
    /\ conns = [p \in Procs |-> {LeftOpen}]
    /\ waited = [p \in Procs |-> 0]

\* The call of each process: the first stores ChatGPT's responses, the second
\* Claude's.
UpdateOf(p) == IF p = Caller THEN UpdateChatgpt ELSE UpdateClaude

NextConcurrent ==
    \E p \in Procs :
        \/ \E id \in SeqCtxIds, response \in ConcurrentResponses :
              CallUpdateResponse(p, UpdateOf(p), id, response)
        \/ ExecUpdateResponse(p)
        \/ UpdateResponseBusy(p)
        \/ CommitUpdateResponse(p)
        \/ Return(p)

\* update_chatgpt_response in one process beside update_claude_response in
\* another, on stored entries.
SpecConcurrent == InitConcurrent /\ [][NextConcurrent]_vars

\* ------------------------------- second opinions beside another process's
\* ------------------------------- deletes

\* delete_context(context_id) by a process, from the call to the commit; it
\* needs the write lock.
DeleteContextBy(p, id) ==
    /\ pc[p] = "idle"
    /\ lock = "none"
    /\ contexts' = DeleteById(contexts, id)
    /\ pc' = [pc EXCEPT ![p] = "done"]
    /\ op' = [op EXCEPT ![p] = "delete_context"]
    /\ arg' = [arg EXCEPT ![p] = id]
    /\ ret' = [ret EXCEPT ![p] =
                  Ok(Len(contexts) - Len(DeleteById(contexts, id)) > 0)]
    /\ conns' = [conns EXCEPT ![p] = LeaveOpen(@)]
    /\ UNCHANGED <<todo_snapshots, scan_rev, cache, lock, journal, db_path,
                   journal_mode, schema, log, waited>>

NextAskDel ==
    \/ \E e \in SeqContextPool : SaveContext(e)
    \/ \E f \in Frontends, t \in AskTools, id \in SeqCtxIds, q \in Questions :
          AskRead(f, t, id, q)
    \/ \E outcome \in ChatGPTOutcomes \cup ClaudeOutcomes : AskCall(outcome)
    \/ AskStore
    \/ AskCommit
    \/ Return(Caller)
    \/ \E id \in SeqCtxIds : DeleteContextBy(Other, id)
    \/ Return(Other)

\* The second-opinion calls of one process beside the deletes of another.
SpecAskDel == Init /\ [][NextAskDel]_vars

\* ------------------------------------------------------------------ claims

\* The rows of a table that are active snapshots of a project.
ActiveRows(table, project_path) ==
    {i \in 1..Len(table) :
        table[i].project_path = project_path /\ table[i].is_active = 1}

SavedActive(p) == op[p] = "save_todo_snapshot" /\ arg[p].is_active

\* C1: in every reachable state of the store, whatever saves (active or not,
\* new or existing id, same or changed project) and deletes the processes have
\* run, each project_path has at most one snapshot with is_active = 1.
C1_AtMostOneActive ==
    \A project_path \in Projects :
        Cardinality(ActiveRows(todo_snapshots, project_path)) <= 1

\* C1 witness: an active save has committed into a project that holds another,
\* inactive, snapshot.
C1_Witness ==
    \E p \in Procs :
        /\ pc[p] = "done"
        /\ SavedActive(p)
        /\ Cardinality(ActiveRows(todo_snapshots, arg[p].project_path)) = 1
        /\ \E i \in 1..Len(todo_snapshots) :
              /\ todo_snapshots[i].project_path = arg[p].project_path
              /\ todo_snapshots[i].id # arg[p].id
              /\ todo_snapshots[i].is_active = 0

\* The step in which process p commits its save of an active snapshot.
CommitsActiveSave(p) ==
    pc[p] = "commit" /\ pc'[p] = "done" /\ SavedActive(p)

\* C2: when save_todo_snapshot(s) with s.is_active commits, exactly one snapshot
\* of s.project_path is active, it is s, get_active_todo_snapshot(s.project_path)
\* returns s, and a snapshot of the project that was active before is stored
\* inactive.
C2_SaveActiveMakesItTheActive ==
    [][\A p \in Procs :
          CommitsActiveSave(p) =>
            LET s == arg[p]
                active == ActiveRows(todo_snapshots', s.project_path)
            IN  /\ Cardinality(active) = 1
                /\ \A i \in active : todo_snapshots'[i].id = s.id
                /\ get_active_todo_snapshot(todo_snapshots', s.project_path) = Ok(<<s>>)
                /\ \A i \in ActiveRows(todo_snapshots, s.project_path) :
                      todo_snapshots[i].id # s.id =>
                        \E j \in 1..Len(todo_snapshots') :
                            todo_snapshots'[j] =
                                [todo_snapshots[i] EXCEPT !.is_active = 0]]_vars

\* C2 witness: an active save has committed, it is what get_active returns,
\* and another snapshot of the project is stored inactive.
C2_Witness ==
    \E p \in Procs :
        /\ pc[p] = "done"
        /\ SavedActive(p)
        /\ get_active_todo_snapshot(todo_snapshots, arg[p].project_path)
              = Ok(<<arg[p]>>)
        /\ \E i \in 1..Len(todo_snapshots) :
              /\ todo_snapshots[i].project_path = arg[p].project_path
              /\ todo_snapshots[i].id # arg[p].id
              /\ todo_snapshots[i].is_active = 0
              /\ todo_snapshots[i].timestamp = isoformat(arg[p].timestamp)

\* What a read operation returns on a table.
ReadOf(name, a, table) ==
    IF name = "get_active_todo_snapshot"
    THEN get_active_todo_snapshot(table, a)
    ELSE get_todo_snapshot(table, a)

\* The step in which process r runs a read.
ReadStep(r) ==
    /\ pc[r] = "idle"
    /\ pc'[r] = "done"
    /\ op'[r] \in {"get_active_todo_snapshot", "get_todo_snapshot"}

\* C3: a reader never observes a torn save_todo_snapshot: a read that runs
\* while another process's transaction is open (its siblings deactivated, the
\* new snapshot not yet stored or not yet committed) returns what the store
\* held before that transaction began.
C3_NoTornRead ==
    [][\A r \in Procs :
          (ReadStep(r) /\ journal.hot) =>
              ret'[r] = ReadOf(op'[r], arg'[r], journal.todo)]_vars

\* C3 witness: a writer has deactivated the active snapshot of a project in its
\* open transaction and not yet inserted the new one, and a reader holds that
\* project's active snapshot, still active.
C3_Witness ==
    \E p \in Procs, r \in Procs :
        /\ p # r
        /\ pc[p] = "save_insert"
        /\ ActiveRows(cache[p], arg[p].project_path) = {}
        /\ pc[r] = "done"
        /\ op[r] = "get_active_todo_snapshot"
        /\ arg[r] = arg[p].project_path
        /\ ret[r].ok
        /\ ret[r].v # <<>>
        /\ ret[r] = get_active_todo_snapshot(todo_snapshots, arg[r])

\* C4: once two processes have both committed a save of an active snapshot for
\* the same project_path with distinct ids, whatever the interleaving, exactly
\* one snapshot of the project is active and it is one of the two.
C4_ConcurrentActiveSaves ==
    \A p \in Procs, q \in Procs :
        (/\ p # q
         /\ pc[p] = "done" /\ SavedActive(p)
         /\ pc[q] = "done" /\ SavedActive(q)
         /\ arg[p].project_path = arg[q].project_path
         /\ arg[p].id # arg[q].id)
        => LET active == ActiveRows(todo_snapshots, arg[p].project_path)
           IN  /\ Cardinality(active) = 1
               /\ \A i \in active : todo_snapshots[i].id \in {arg[p].id, arg[q].id}

\* C4 witness: both processes have committed active saves of distinct ids for
\* one project, and both snapshots are stored.
C4_Witness ==
    \E p \in Procs, q \in Procs :
        /\ p # q
        /\ pc[p] = "done" /\ SavedActive(p)
        /\ pc[q] = "done" /\ SavedActive(q)
        /\ arg[p].project_path = arg[q].project_path
        /\ arg[p].id # arg[q].id
        /\ {arg[p].id, arg[q].id} \subseteq Ids(todo_snapshots)

\* The caller has saved a record with operation name and read it back.
ReadBack(name) == pc[Caller] = "readback" /\ op[Caller] = name

\* C5: get_context(e.id) after save_context(e) returns an entry equal to e in
\* every field, for any entry whose tags contain no comma: also with an empty
\* tag list, with empty-string tags, with absent optional fields and with
\* optional fields set to the empty string.
C5_ContextRoundTrip ==
    ReadBack("save_context") => ret[Caller] = Ok(<<arg[Caller]>>)

\* C5 as the code has it: the entry read back equals the saved one in every
\* field but tags when the saved tags are the one empty string, which comes
\* back as the empty list.
C5_RoundTripButLoneEmptyTag ==
    ReadBack("save_context") =>
        LET e == arg[Caller]
        IN  IF e.tags = << <<>> >>
            THEN ret[Caller] = Ok(<<[e EXCEPT !.tags = <<>>]>>)
            ELSE ret[Caller] = Ok(<<e>>)

\* C5 witness: an entry whose only tag is the empty string, with empty-string
\* optional fields, has been saved and read back.
C5_Witness ==
    /\ ReadBack("save_context")
    /\ arg[Caller].tags = << <<>> >>
    /\ arg[Caller].session_id = <<>>
    /\ arg[Caller].chatgpt_response = <<>>
    /\ ret[Caller].ok

\* C6: get_todo_snapshot(s.id) after save_todo_snapshot(s) returns a snapshot
\* whose todos has the length of s.todos and holds equal items in the same
\* order, for zero todos as well.
C6_TodosRoundTrip ==
    ReadBack("save_todo_snapshot") =>
        /\ ret[Caller].ok
        /\ Len(ret[Caller].v) = 1
        /\ Len(ret[Caller].v[1].todos) = Len(arg[Caller].todos)
        /\ \A i \in 1..Len(arg[Caller].todos) :
              ret[Caller].v[1].todos[i] = arg[Caller].todos[i]

\* C6 witness: a snapshot with two different todos, one of them with quote,
\* backslash and comma in its content, has been saved and read back.
C6_Witness ==
    /\ ReadBack("save_todo_snapshot")
    /\ Len(arg[Caller].todos) = 2
    /\ arg[Caller].todos[1] = TodoQ
    /\ arg[Caller].todos[2] = Todo1
    /\ ret[Caller].ok

\* The step in which the caller runs operation name.
CallStep(name) ==
    pc[Caller] = "idle" /\ pc'[Caller] = "done" /\ op'[Caller] = name

\* C7: save_context(e) is an upsert.  After it the store holds exactly one row
\* with e.id, every column of it is e's (title, content, tags and both responses
\* included), get_context(e.id) returns e, the rows of other ids are as before;
\* and saving e again right after leaves the table as the first save left it.
C7_SaveContextOverwrites ==
    [][CallStep("save_context") =>
          LET e == arg'[Caller]
              rows == SelectById(contexts', e.id)
          IN  /\ Len(rows) = 1
              /\ rows[1] = ContextRow(e)
              /\ rows[1].chatgpt_response = e.chatgpt_response
              /\ rows[1].claude_response = e.claude_response
              /\ get_context(contexts', e.id) = Ok(<<e>>)
              /\ DeleteById(contexts', e.id) = DeleteById(contexts, e.id)
              /\ (contexts # <<>> /\ contexts[Len(contexts)] = ContextRow(e))
                    => contexts' = contexts]_vars

\* C7 witness: an entry without responses has been saved into a store that
\* holds another entry, and its row is the only one with its id.
C7_Witness ==
    /\ pc[Caller] = "done"
    /\ op[Caller] = "save_context"
    /\ arg[Caller].chatgpt_response = NULL
    /\ arg[Caller].claude_response = NULL
    /\ Len(contexts) = 2
    /\ Len(SelectById(contexts, arg[Caller].id)) = 1
    /\ contexts[2] = ContextRow(arg[Caller])

\* What a delete of id that returned r did to a table, lookup being the get
\* by id afterwards.
DeletePost(before, after, id, r, lookup) ==
    IF id \in Ids(before)
    THEN /\ r = Ok(TRUE)
         /\ lookup = Ok(<<>>)
         /\ Len(after) = Len(before) - 1
         /\ \A i \in 1..Len(before) :
               before[i].id # id => \E j \in 1..Len(after) : after[j] = before[i]
    ELSE /\ r = Ok(FALSE)
         /\ after = before

\* C8: delete_context(id) and delete_todo_snapshot(id) on a stored id return
\* true, the get by id afterwards finds nothing and every other row is as it
\* was; on an id that is not stored they return false and change nothing.
C8_Delete ==
    [][/\ CallStep("delete_context") =>
            /\ DeletePost(contexts, contexts', arg'[Caller], ret'[Caller],
                          get_context(contexts', arg'[Caller]))
            /\ todo_snapshots' = todo_snapshots
       /\ CallStep("delete_todo_snapshot") =>
            /\ DeletePost(todo_snapshots, todo_snapshots', arg'[Caller],
                          ret'[Caller],
                          get_todo_snapshot(todo_snapshots', arg'[Caller]))
            /\ contexts' = contexts]_vars

\* C8 witness: delete_context returned true and another entry and a snapshot
\* are still stored.
C8_Witness ==
    /\ pc[Caller] = "done"
    /\ op[Caller] = "delete_context"
    /\ ret[Caller] = Ok(TRUE)
    /\ Len(contexts) = 1
    /\ arg[Caller] \notin Ids(contexts)
    /\ todo_snapshots # <<>>

RECURSIVE Pages(_, _, _, _, _, _)
\* The pages list_contexts returns for offset, offset + limit, ..., up to the
\* first empty page, one after the other.
Pages(table, type_filter, project_path, limit, offset, rev) ==
    LET page == list_contexts(table, type_filter, project_path, limit, offset, rev)
    IN  IF ~page.ok \/ page.v = <<>> THEN <<>>
        ELSE page.v \o Pages(table, type_filter, project_path, limit,
                             offset + limit, rev)

\* C9: when list_contexts has returned a page for filters and a limit L >= 1,
\* the pages for offsets 0, L, 2L, ... of the unchanged store, concatenated,
\* are the sequence one call with a limit of the store's size returns, and the
\* returned page is its slice at the offset; equal timestamps included.
C9_PagesConcatenate ==
    (pc[Caller] = "done" /\ op[Caller] = "list_contexts") =>
        LET a == arg[Caller]
            all == list_contexts(contexts, a.type_filter, a.project_path,
                                 Len(contexts) + 1, 0, scan_rev)
        IN  /\ all.ok
            /\ ret[Caller].ok
            /\ Pages(contexts, a.type_filter, a.project_path, a.limit, 0, scan_rev)
                  = all.v
            /\ \A i \in 1..Len(ret[Caller].v) :
                  /\ a.offset + i <= Len(all.v)
                  /\ ret[Caller].v[i] = all.v[a.offset + i]
            /\ Len(ret[Caller].v) < a.limit =>
                  a.offset + Len(ret[Caller].v) >= Len(all.v)

\* C9 witness: the second page of limit 1 has been listed, without filters, in
\* a store of two entries with the same timestamp.
C9_Witness ==
    /\ pc[Caller] = "done"
    /\ op[Caller] = "list_contexts"
    /\ arg[Caller].limit = 1
    /\ arg[Caller].offset = 1
    /\ arg[Caller].type_filter = NULL
    /\ arg[Caller].project_path = NULL
    /\ Len(contexts) = 2
    /\ contexts[1].timestamp = contexts[2].timestamp
    /\ Len(ret[Caller].v) = 1
    /\ ret[Caller].v[1].id = contexts[IF scan_rev THEN 1 ELSE 2].id

\* An entry passes the filters that are given (not None).
PassesGiven(e, type_filter, project_path) ==
    /\ type_filter # NULL => e.type = type_filter
    /\ project_path # NULL => e.project_path = project_path

\* An entry passes the filters that are given and not empty.
PassesTruthy(e, type_filter, project_path) ==
    /\ Truthy(type_filter) => e.type = type_filter
    /\ Truthy(project_path) => e.project_path = project_path

\* The stored entries, newest first.
Newest(table, rev) == RowsToContexts(OrderByTimestamp(table, TRUE, rev)).v

\* C10: list_contexts(type_filter = t, project_path = p, limit = n) returns,
\* newest first, exactly the first n stored entries whose type is t (when t is
\* given) and whose project_path is p (when p is given); for every filter
\* value, the empty string included, no entry that fails a given filter is
\* returned.
C10_FiltersAsGiven ==
    (pc[Caller] = "done" /\ op[Caller] = "list_contexts"
        /\ arg[Caller].offset = 0) =>
        LET a == arg[Caller]
            Hit(e) == PassesGiven(e, a.type_filter, a.project_path)
            hits == SelectSeq(Newest(contexts, scan_rev), Hit)
        IN  /\ ret[Caller].ok
            /\ ret[Caller].v =
                  SubSeq(hits, 1, IF a.limit < Len(hits) THEN a.limit ELSE Len(hits))
            /\ \A i \in 1..Len(ret[Caller].v) : Hit(ret[Caller].v[i])

\* C10 as the code has it: a filter that is the empty string filters nothing;
\* the result is the first n entries that pass the non-empty filters.
C10_FiltersWhenNotEmpty ==
    (pc[Caller] = "done" /\ op[Caller] = "list_contexts"
        /\ arg[Caller].offset = 0) =>
        LET a == arg[Caller]
            Hit(e) == PassesTruthy(e, a.type_filter, a.project_path)
            hits == SelectSeq(Newest(contexts, scan_rev), Hit)
        IN  /\ ret[Caller].ok
            /\ ret[Caller].v =
                  SubSeq(hits, 1, IF a.limit < Len(hits) THEN a.limit ELSE Len(hits))

\* C10 witness: list_contexts(type_filter = "") has returned an entry, whose
\* type is not the empty string.
C10_Witness ==
    /\ pc[Caller] = "done"
    /\ op[Caller] = "list_contexts"
    /\ arg[Caller].type_filter = <<>>
    /\ arg[Caller].offset = 0
    /\ ret[Caller].ok
    /\ ret[Caller].v # <<>>
    /\ ret[Caller].v[1].type # <<>>

\* q occurs in text at position i, without regard to ASCII case.
OccursAt(q, text, i) ==
    \A k \in 1..Len(q) : ToLower(text[i + k - 1]) = ToLower(q[k])

\* q is a case-insensitive substring of text.
Contains(q, text) ==
    text # NULL /\ \E i \in 1..(Len(text) - Len(q) + 1) : OccursAt(q, text, i)

\* The first n items of a sequence.
FirstN(s, n) == SubSeq(s, 1, IF n < Len(s) THEN n ELSE Len(s))

SearchedContexts == pc[Caller] = "done" /\ op[Caller] = "search_contexts"

\* C11: search_contexts(q) returns, most recent first and up to the limit,
\* exactly the stored entries (of the type, when one is given) for which q is a
\* case-insensitive substring of the title, of the serialized content or of the
\* serialized tags, for every q, those with the characters % or _ included.
C11_SearchIsSubstringMatch ==
    SearchedContexts =>
        LET a == arg[Caller]
            Hit(r) == /\ Truthy(a.type_filter) => r.type = a.type_filter
                      /\ \/ Contains(a.query, r.title)
                         \/ Contains(a.query, r.content)
                         \/ Contains(a.query, r.tags)
            hits == OrderByTimestamp(SelectSeq(contexts, Hit), TRUE, scan_rev)
        IN  ret[Caller] = RowsToContexts(FirstN(hits, a.limit))

\* C11 witness: search_contexts("_") has returned an entry that has no "_" in
\* its title, serialized content or serialized tags.
C11_Witness ==
    /\ SearchedContexts
    /\ arg[Caller].query = <<"_">>
    /\ ret[Caller].ok
    /\ \E i \in 1..Len(ret[Caller].v) :
          LET r == ContextRow(ret[Caller].v[i])
          IN  /\ ~Contains(<<"_">>, r.title)
              /\ ~Contains(<<"_">>, r.content)
              /\ ~Contains(<<"_">>, r.tags)

\* C11 as the code has it: for a query without % and _ that is short enough
\* for a LIKE pattern, the result is the substring matches.
C11_SearchWithoutWildcards ==
    (/\ SearchedContexts
     /\ Len(LikePattern(arg[Caller].query)) <= SQLITE_MAX_LIKE_PATTERN_LENGTH
     /\ \A k \in 1..Len(arg[Caller].query) :
           arg[Caller].query[k] \notin {"%", "_"}) =>
        LET a == arg[Caller]
            Hit(r) == /\ Truthy(a.type_filter) => r.type = a.type_filter
                      /\ \/ Contains(a.query, r.title)
                         \/ Contains(a.query, r.content)
                         \/ Contains(a.query, r.tags)
            hits == OrderByTimestamp(SelectSeq(contexts, Hit), TRUE, scan_rev)
        IN  ret[Caller] = RowsToContexts(FirstN(hits, a.limit))

Searched ==
    /\ pc[Caller] = "done"
    /\ op[Caller] \in {"search_contexts", "search_todo_snapshots"}

\* C12: for every free-text query (the empty string and strings with wildcard
\* characters included) and every store the save operations produce,
\* search_contexts and search_todo_snapshots return a list, which may be empty,
\* and do not raise.
C12_SearchNeverRaises == Searched => ret[Caller].ok

\* C12 witness: search_todo_snapshots has raised on a query that is too long
\* for a LIKE pattern, in a store whose one snapshot a save produced.
C12_Witness ==
    /\ Searched
    /\ op[Caller] = "search_todo_snapshots"
    /\ arg[Caller].query = LongQuery
    /\ Len(todo_snapshots) = 1
    /\ ~ret[Caller].ok

\* C12 as the code has it: a search raises only when its LIKE pattern is
\* longer than the library accepts and a row is visited.
C12_SearchRaisesOnlyWhenTooLong ==
    Searched =>
        (~ret[Caller].ok <=>
            /\ Len(LikePattern(arg[Caller].query)) > SQLITE_MAX_LIKE_PATTERN_LENGTH
            /\ \/ /\ op[Caller] = "search_contexts"
                  /\ \E i \in 1..Len(contexts) :
                        Truthy(arg[Caller].type_filter) =>
                            contexts[i].type = arg[Caller].type_filter
               \/ /\ op[Caller] = "search_todo_snapshots"
                  /\ \E i \in 1..Len(todo_snapshots) :
                        Truthy(arg[Caller].project_path) =>
                            todo_snapshots[i].project_path = arg[Caller].project_path)

GotByTags == pc[Caller] = "done" /\ op[Caller] = "get_contexts_by_tags"

\* The tags of the entry a row holds.
TagsOf(row) == row_to_context(row).v.tags

\* C13: get_contexts_by_tags(T) returns, up to the limit, exactly the stored
\* contexts that have a tag equal to a member of T; a context none of whose
\* tags is in T is not returned.
C13_TagsMatchByEquality ==
    GotByTags =>
        LET a == arg[Caller]
            Hit(r) == \E i \in 1..Len(TagsOf(r)), k \in 1..Len(a.tags) :
                          TagsOf(r)[i] = a.tags[k]
            hits == OrderByTimestamp(SelectSeq(contexts, Hit), TRUE, scan_rev)
        IN  ret[Caller] = RowsToContexts(FirstN(hits, a.limit))

\* C13 witness: get_contexts_by_tags(["x"]) has returned an entry whose tags
\* are "xy" and "z".
C13_Witness ==
    /\ GotByTags
    /\ arg[Caller].tags = << <<"x">> >>
    /\ ret[Caller].ok
    /\ \E i \in 1..Len(ret[Caller].v) :
          ret[Caller].v[i].tags = << <<"x", "y">>, <<"z">> >>

\* C13 as the code has it: with at least one tag in T, the result is the
\* contexts whose serialized tags contain a member of T as a substring.
C13_TagsMatchBySubstring ==
    (GotByTags /\ arg[Caller].tags # <<>>) =>
        LET a == arg[Caller]
            Hit(r) == \E k \in 1..Len(a.tags) : Contains(a.tags[k], r.tags)
            hits == OrderByTimestamp(SelectSeq(contexts, Hit), TRUE, scan_rev)
        IN  ret[Caller] = RowsToContexts(FirstN(hits, a.limit))

\* C14: get_contexts_by_tags returns an ordered sequence, which may be empty,
\* for every set of tag strings, the empty set included; it never fails.
C14_ByTagsNeverFails == GotByTags => ret[Caller].ok

\* C14 witness: get_contexts_by_tags([]) has failed.
C14_Witness ==
    /\ GotByTags
    /\ arg[Caller].tags = <<>>
    /\ ~ret[Caller].ok

\* C14 as the code has it: with the tag lists of the model, the call fails
\* exactly when the list is empty.
C14_ByTagsFailsOnEmptyList ==
    GotByTags => (~ret[Caller].ok <=> arg[Caller].tags = <<>>)

\* The response column an update operation sets.
ColumnOf(name) ==
    IF name = "update_chatgpt_response" THEN "chatgpt_response"
    ELSE "claude_response"

UpdateStep ==
    \/ CallStep("update_chatgpt_response")
    \/ CallStep("update_claude_response")

\* C15: update_chatgpt_response(id, r) and update_claude_response(id, r) leave
\* the number and the order of the rows as they are, change no row of another
\* id, and change in the row of id the named response column, to r, and no
\* other column; when no row has the id the table is unchanged.
C15_UpdateChangesOneField ==
    [][UpdateStep =>
          LET a == arg'[Caller]
              col == ColumnOf(op'[Caller])
          IN  /\ Len(contexts') = Len(contexts)
              /\ \A i \in 1..Len(contexts) :
                    IF contexts[i].id = a.id
                    THEN /\ contexts'[i][col] = a.response
                         /\ \A f \in DOMAIN contexts[i] \ {col} :
                               contexts'[i][f] = contexts[i][f]
                    ELSE contexts'[i] = contexts[i]
              /\ a.id \notin Ids(contexts) => contexts' = contexts
              /\ todo_snapshots' = todo_snapshots]_vars

\* C15 witness: update_claude_response has set the response of one of two
\* stored entries, whose chatgpt_response is as it was saved.
C15_Witness ==
    /\ pc[Caller] = "done"
    /\ op[Caller] = "update_claude_response"
    /\ arg[Caller].response = <<"u">>
    /\ Len(contexts) = 2
    /\ \E i, j \in 1..2 :
          /\ contexts[i].id = arg[Caller].id
          /\ contexts[i].claude_response = <<"u">>
          /\ contexts[i].chatgpt_response = <<"r">>
          /\ contexts[j].id # arg[Caller].id
          /\ contexts[j].claude_response = NULL

\* The instant a datetime denotes, in tenths of the unit of its digit h.
Instant(ts) == (ts[1] - (IF Len(ts) = 3 THEN ts[3] ELSE 0)) * 10 + ts[2]

\* The instant a stored timestamp text denotes.
InstantOf(text) == Instant(fromisoformat(text).v)

\* The stored entries.
Stored == RowsToContexts(contexts).v

\* The entries of a session in a project.
SessionEntries(project_path, sid) ==
    {i \in 1..Len(Stored) :
        Stored[i].project_path = project_path /\ Stored[i].session_id = sid}

\* The non-null session ids among the entries of a project.
SessionIds(project_path) ==
    {Stored[i].session_id : i \in {j \in 1..Len(Stored) :
        Stored[j].project_path = project_path /\ Stored[j].session_id # NULL}}

\* The summary s tells the truth about its session in the project: the number
\* of entries, the earliest and the latest entry timestamp, its start.
TrueSummary(s, project_path) ==
    LET of == SessionEntries(project_path, s.session_id)
    IN  /\ s.session_id \in SessionIds(project_path)
        /\ s.context_count = Cardinality(of)
        /\ \E i \in of :
              /\ s.first_context = isoformat(Stored[i].timestamp)
              /\ \A j \in of : Instant(Stored[i].timestamp) <= Instant(Stored[j].timestamp)
        /\ \E i \in of :
              /\ s.last_context = isoformat(Stored[i].timestamp)
              /\ \A j \in of : Instant(Stored[j].timestamp) <= Instant(Stored[i].timestamp)
        /\ \A i \in of : s.session_timestamp = isoformat(Stored[i].session_timestamp)

\* The summaries are of different sessions, each true, latest start first.
TrueSummaries(r, project_path) ==
    /\ \A i \in 1..Len(r) : TrueSummary(r[i], project_path)
    /\ \A i, j \in 1..Len(r) :
          i < j => /\ r[i].session_id # r[j].session_id
                   /\ InstantOf(r[i].session_timestamp)
                         >= InstantOf(r[j].session_timestamp)

ListedSessions == pc[Caller] = "done" /\ op[Caller] = "list_sessions"

\* C16 as stated: list_sessions(p) returns one summary per distinct non-null
\* session_id among the contexts of project p, each with the count, the
\* minimum and the maximum timestamp of those contexts, ordered by session
\* start descending.
C16_OneSummaryPerSession ==
    ListedSessions =>
        LET r == ret[Caller].v
            p == arg[Caller].project_path
        IN  /\ TrueSummaries(r, p)
            /\ {r[i].session_id : i \in 1..Len(r)} = SessionIds(p)

\* C16, with the limit: list_sessions(p, limit) returns at most limit
\* summaries, of different non-null session ids of project p, each with the
\* count, the minimum and the maximum timestamp of the session's contexts in p,
\* ordered by session start descending; all the sessions of p when there are
\* at most limit of them, else the limit ones that started last.
C16_SummariesUpToLimit ==
    ListedSessions =>
        LET r == ret[Caller].v
            p == arg[Caller].project_path
            n == Cardinality(SessionIds(p))
            listed == {r[i].session_id : i \in 1..Len(r)}
        IN  /\ ret[Caller].ok
            /\ TrueSummaries(r, p)
            /\ Len(r) = IF n < arg[Caller].limit THEN n ELSE arg[Caller].limit
            /\ \A sid \in SessionIds(p) \ listed :
                  \A i \in 1..Len(r), k \in SessionEntries(p, sid) :
                      Instant(Stored[k].session_timestamp)
                          <= InstantOf(r[i].session_timestamp)

\* C16 witness: project /a holds an entry of session s1 and one of the later
\* session s2, and list_sessions("/a", limit = 1) has returned only s2.
C16_Witness ==
    /\ ListedSessions
    /\ arg[Caller].project_path = <<"/", "a">>
    /\ arg[Caller].limit = 1
    /\ SessionIds(<<"/", "a">>) = {S1, S2}
    /\ Len(ret[Caller].v) = 1
    /\ ret[Caller].v[1].session_id = S2
    /\ ret[Caller].v[1].context_count = 1


GotSessionContexts == pc[Caller] = "done" /\ op[Caller] = "get_session_contexts"

\* C17: get_session_contexts(sid) returns all stored contexts whose
\* session_id equals sid, and only those, each once, ordered by timestamp
\* ascending.
C17_SessionContextsAscending ==
    GotSessionContexts =>
        LET r == ret[Caller].v
            sid == arg[Caller]
            of == {i \in 1..Len(Stored) : Stored[i].session_id = sid}
        IN  /\ ret[Caller].ok
            /\ {r[i] : i \in 1..Len(r)} = {Stored[i] : i \in of}
            /\ Len(r) = Cardinality(of)
            /\ \A i, j \in 1..Len(r) :
                  i < j => Instant(r[i].timestamp) <= Instant(r[j].timestamp)

\* C17 witness: two contexts of session s1 with different timestamps were
\* returned, the earlier one first, while the store holds them the other way
\* round.
C17_Witness ==
    /\ GotSessionContexts
    /\ arg[Caller] = S1
    /\ Len(ret[Caller].v) = 2
    /\ Instant(ret[Caller].v[1].timestamp) < Instant(ret[Caller].v[2].timestamp)
    /\ Len(contexts) = 2
    /\ contexts[1].id = ret[Caller].v[2].id


ListedContexts == pc[Caller] = "done" /\ op[Caller] = "list_contexts"

\* C18 as stated: of any two stored entries, timestamps with different UTC
\* offsets or with and without a fractional part included, the one a
\* timestamp-descending listing puts first is chronologically not earlier than
\* the other.
C18_ListingIsChronological ==
    ListedContexts =>
        \A i, j \in 1..Len(ret[Caller].v) :
            i < j => Instant(ret[Caller].v[i].timestamp)
                        >= Instant(ret[Caller].v[j].timestamp)

\* C18, as the code has it: the listing is chronological among timestamps of
\* one UTC offset, with or without a fractional part.
C18_ChronologicalWithinOneOffset ==
    ListedContexts =>
        \A i, j \in 1..Len(ret[Caller].v) :
            (i < j /\ ret[Caller].v[i].timestamp[3] = ret[Caller].v[j].timestamp[3])
                => Instant(ret[Caller].v[i].timestamp)
                      >= Instant(ret[Caller].v[j].timestamp)

\* C18 witness: a listing has put an entry of UTC+2 before an entry of UTC
\* that denotes a later instant.
C18_Witness ==
    /\ ListedContexts
    /\ Len(ret[Caller].v) = 2
    /\ ret[Caller].v[1].timestamp = <<5, 0, 2>>
    /\ ret[Caller].v[2].timestamp = <<4, 0, 0>>
    /\ Instant(ret[Caller].v[1].timestamp) < Instant(ret[Caller].v[2].timestamp)


\* The rows a point lookup selects in the store as it is.
LookedUp(name, a) ==
    IF name = "get_context" THEN SelectById(contexts, a)
    ELSE IF name = "get_todo_snapshot" THEN SelectById(todo_snapshots, a)
    ELSE SelectActive(todo_snapshots, a)

LookupStep ==
    /\ pc[Caller] = "idle"
    /\ pc'[Caller] = "done"
    /\ op'[Caller] \in {"get_context", "get_todo_snapshot", "get_active_todo_snapshot"}

\* C19: get_context, get_todo_snapshot and get_active_todo_snapshot leave the
\* store unchanged, and when no row matches they do not raise and return the
\* explicit empty result.
C19_LookupOfNothing ==
    [][LookupStep =>
          /\ contexts' = contexts
          /\ todo_snapshots' = todo_snapshots
          /\ LookedUp(op'[Caller], arg'[Caller]) = <<>>
                => ret'[Caller] = Ok(<<>>)]_vars

\* C19 witness: with a context and a snapshot stored, get_active_todo_snapshot
\* of a project that has no active snapshot has returned the empty result.
C19_Witness ==
    /\ pc[Caller] = "done"
    /\ op[Caller] = "get_active_todo_snapshot"
    /\ contexts # <<>>
    /\ todo_snapshots # <<>>
    /\ SelectActive(todo_snapshots, arg[Caller]) = <<>>
    /\ ret[Caller] = Ok(<<>>)


\* The stored text of a structured column cannot be parsed; a missing (null)
\* or empty text is none that parses.
BrokenContext(row) ==
    \/ ~content_validate_json(row.content).ok
    \/ row.metadata = NULL
    \/ ~Loads(row.metadata).ok

BrokenSnapshot(row) ==
    \/ ~todos_loads(row.todos).ok
    \/ row.metadata = NULL
    \/ ~Loads(row.metadata).ok

\* The rows a read selects, before they are converted.
RowsRead ==
    LET name == op[Caller]
        a == arg[Caller]
        OfProject(r) == Truthy(a.project_path) => r.project_path = a.project_path
        Listed(r) == ListContextsWhere(r, a.type_filter, a.project_path)
    IN  IF name = "get_context" THEN FirstN(SelectById(contexts, a), 1)
        ELSE IF name = "list_contexts"
        THEN LimitOffset(OrderByTimestamp(SelectSeq(contexts, Listed), TRUE, scan_rev),
                         a.limit, a.offset)
        ELSE IF name = "get_todo_snapshot"
        THEN FirstN(SelectById(todo_snapshots, a), 1)
        ELSE IF name = "get_active_todo_snapshot"
        THEN FirstN(SelectActive(todo_snapshots, a), 1)
        ELSE IF name = "list_todo_snapshots"
        THEN LimitOffset(OrderByTimestamp(SelectSeq(todo_snapshots, OfProject),
                                          TRUE, scan_rev),
                         a.limit, a.offset)
        ELSE <<>>

ReadOfContexts == op[Caller] \in {"get_context", "list_contexts"}

\* A row the read selects has a structured column that does not parse.
ReadsBrokenRow ==
    \E i \in 1..Len(RowsRead) :
        IF ReadOfContexts THEN BrokenContext(RowsRead[i])
        ELSE BrokenSnapshot(RowsRead[i])

\* C20 as stated: when the stored text of content, metadata or todos of a row
\* cannot be parsed, the empty and the null text included, every read that
\* returns the row fails; none returns a record with a default in its place.
C20_ReadsFailOnBrokenRows ==
    (pc[Caller] = "done" /\ ReadsBrokenRow) => ~ret[Caller].ok

\* C20, as the code has it: the read fails when content or todos does not
\* parse, or metadata is a non-empty text that does not parse; a null or empty
\* metadata is read as the empty mapping.
C20_ReadsFailButForNoMetadata ==
    pc[Caller] = "done" =>
        LET Raises(row) ==
                \/ IF ReadOfContexts THEN ~content_validate_json(row.content).ok
                   ELSE ~todos_loads(row.todos).ok
                \/ Truthy(row.metadata) /\ ~Loads(row.metadata).ok
        IN  ret[Caller].ok <=> \A i \in 1..Len(RowsRead) : ~Raises(RowsRead[i])

\* C20 witness: get_context has returned a record with the empty mapping as
\* metadata for a row whose metadata column is null.
C20_Witness ==
    /\ pc[Caller] = "done"
    /\ op[Caller] = "get_context"
    /\ Len(RowsRead) = 1
    /\ RowsRead[1].metadata = NULL
    /\ ret[Caller].ok
    /\ Len(ret[Caller].v) = 1
    /\ ret[Caller].v[1].metadata = JObj(<<>>)

\* What the reads of one record return on a table: the lookup by id, the
\* unfiltered listing and the search for a text, each as the set of the
\* records of that id it returns.  The limit is beyond every table.
ReadLimit == MaxRows + NumSnapIds
Records(result) == {result.v[i] : i \in 1..Len(result.v)}
WithId(records, id) == {x \in records : x.id = id}

GotContext(table, id) == Records(get_context(table, id))
ListedContext(table, id) ==
    WithId(Records(list_contexts(table, NULL, NULL, ReadLimit, 0, scan_rev)), id)
FoundContext(table, q, id) ==
    WithId(Records(search_contexts(table, q, NULL, ReadLimit, scan_rev)), id)

GotSnapshot(table, id) == Records(get_todo_snapshot(table, id))
ListedSnapshot(table, id) ==
    WithId(Records(list_todo_snapshots(table, NULL, ReadLimit, 0, scan_rev)), id)
FoundSnapshot(table, q, id) ==
    WithId(Records(search_todo_snapshots(table, q, NULL, ReadLimit, scan_rev)), id)

\* The step is the call `name` of the caller, from the call to its commit.
Did(name) ==
    pc[Caller] = "idle" /\ pc'[Caller] = "done" /\ op'[Caller] = name

\* The step is a write of the record id of a table.
WroteContext(id) ==
    \/ Did("save_context") /\ arg'[Caller].id = id
    \/ Did("delete_context") /\ arg'[Caller] = id
WroteSnapshot(id) ==
    \/ Did("save_todo_snapshot") /\ arg'[Caller].id = id
    \/ Did("delete_todo_snapshot") /\ arg'[Caller] = id

\* A snapshot but for is_active, which the save of another snapshot clears.
Inactive(records) == {[x EXCEPT !.is_active = FALSE] : x \in records}

\* C21: within one process every read after a completed write observes it.
\* When save_context(e) has returned, the lookup of e.id returns e, the
\* listing holds e and the search for e's title finds e, and no read returns
\* another record of that id; when delete_context(id) has returned, no read
\* returns a record of that id; a write of another record leaves what the
\* reads of a record return as it was, and a step that is no write leaves the
\* table as it was, so the write is observed until the next write of the
\* record.  Likewise for todo snapshots, where the save of an active snapshot
\* clears is_active of the others.
C21_ReadsObserveWrites ==
    [][/\ Did("save_context") =>
            LET e == arg'[Caller]
            IN  /\ GotContext(contexts', e.id) = {e}
                /\ ListedContext(contexts', e.id) = {e}
                /\ FoundContext(contexts', e.title, e.id) = {e}
                /\ \A q \in ReadQueries : FoundContext(contexts', q, e.id) \subseteq {e}
       /\ Did("delete_context") =>
            LET id == arg'[Caller]
            IN  /\ GotContext(contexts', id) = {}
                /\ ListedContext(contexts', id) = {}
                /\ \A q \in ReadQueries : FoundContext(contexts', q, id) = {}
       /\ ~(\E id \in SeqCtxIds : WroteContext(id)) => contexts' = contexts
       /\ \A id \in SeqCtxIds :
            (\E other \in SeqCtxIds \ {id} : WroteContext(other)) =>
                /\ GotContext(contexts', id) = GotContext(contexts, id)
                /\ ListedContext(contexts', id) = ListedContext(contexts, id)
                /\ \A q \in ReadQueries :
                      FoundContext(contexts', q, id) = FoundContext(contexts, q, id)
       /\ Did("save_todo_snapshot") =>
            LET s == arg'[Caller]
            IN  /\ GotSnapshot(todo_snapshots', s.id) = {s}
                /\ ListedSnapshot(todo_snapshots', s.id) = {s}
                /\ s.todos # <<>> =>
                      FoundSnapshot(todo_snapshots', s.todos[1].content, s.id) = {s}
                /\ \A q \in ReadQueries :
                      FoundSnapshot(todo_snapshots', q, s.id) \subseteq {s}
       /\ Did("delete_todo_snapshot") =>
            LET id == arg'[Caller]
            IN  /\ GotSnapshot(todo_snapshots', id) = {}
                /\ ListedSnapshot(todo_snapshots', id) = {}
                /\ \A q \in ReadQueries : FoundSnapshot(todo_snapshots', q, id) = {}
       /\ ~(\E id \in SnapIds : WroteSnapshot(id)) =>
            todo_snapshots' = todo_snapshots
       /\ \A id \in SnapIds :
            (\E other \in SnapIds \ {id} : WroteSnapshot(other)) =>
                /\ Inactive(GotSnapshot(todo_snapshots', id))
                      = Inactive(GotSnapshot(todo_snapshots, id))
                /\ Inactive(ListedSnapshot(todo_snapshots', id))
                      = Inactive(ListedSnapshot(todo_snapshots, id))
                /\ \A q \in ReadQueries :
                      Inactive(FoundSnapshot(todo_snapshots', q, id))
                          = Inactive(FoundSnapshot(todo_snapshots, q, id))
      ]_vars

\* A search for a title returns the one stored entry, saved earlier by the
\* caller, while two snapshots are stored.
C21_Witness ==
    /\ pc[Caller] = "done"
    /\ op[Caller] = "search_contexts"
    /\ Len(ret[Caller].v) = 1
    /\ ret[Caller].v[1].title = <<"T", "2">>
    /\ arg[Caller].query = <<"T", "2">>
    /\ Len(contexts) = 1
    /\ Len(todo_snapshots) = 2

\* The path of the store holds a cloud-sync marker as one of its segments.
HasMarker == \E i \in 1..Len(db_path) : db_path[i] \in CLOUD_SYNC_MARKERS

Opened == pc[Caller] = "done" /\ op[Caller] = "__init__"

IsLocked(r) == "message" \in DOMAIN r /\ r.message = DatabaseIsLocked.message

\* The call of the process has failed with the busy error.
FailedBusy(p) == pc[p] = "done" /\ IsLocked(ret[p])

\* C23: a write blocked by another connection's lock waits up to the busy
\* timeout of 5000 ms.  It fails with the locked error only when it has
\* waited the 5000 ms and the lock is still held by another process, never
\* before; it never waits longer than that; after the failure the call is over,
\* nothing of it was written and the engine does not try it again; and a
\* process at its first write always leaves it, with the lock or with the
\* error.
C23_BusyTimeout ==
    /\ [][\A p \in Procs :
            (IsLocked(ret'[p]) /\ ~IsLocked(ret[p])) =>
                /\ waited[p] = 5000
                /\ lock \notin {"none", p}
                /\ pc'[p] = "done"
                /\ todo_snapshots' = todo_snapshots
                /\ lock' = lock
         ]_vars
    /\ [](\A p \in Procs :
            /\ waited[p] <= 5000
            /\ IsLocked(ret[p]) => pc[p] = "done" /\ cache[p] = <<>>)
    /\ [][\A p \in Procs : FailedBusy(p) => pc'[p] \in {"done", "idle"}]_vars
    /\ \A p \in Procs : AtFirstWrite(p) ~> ~AtFirstWrite(p)

\* A save has failed with the locked error while the other process is still
\* in its transaction.
C23_Witness ==
    /\ FailedBusy("p2")
    /\ op["p2"] = "save_todo_snapshot"
    /\ lock = "p1"
    /\ pc["p1"] = "commit"

\* The operation of the process returns to its caller.
Returns(p) == pc[p] = "done" /\ pc'[p] = "idle"

\* C24: every public storage operation opens its own connection, commits and
\* closes the connection before it returns: when an operation returns, the
\* process holds no open connection and no lock.
C24_ClosedOnReturn ==
    [][\A p \in Procs : Returns(p) => conns'[p] = {} /\ lock' # p]_vars

\* What holds of the operations: each runs on a connection of its own, which
\* it opens; when it returns its transaction is committed and it holds no
\* lock, and the connection is left open, until the interpreter finalizes it.
C24_CommittedOnReturn ==
    [][\A p \in Procs :
          /\ (pc[p] = "idle" /\ pc'[p] # "idle") =>
                InUse \notin conns[p] /\ conns'[p] # {}
          /\ Returns(p) =>
                /\ lock' # p
                /\ cache'[p] = <<>>
                /\ conns'[p] = {LeftOpen}
      ]_vars

\* A save has committed on its own connection, which is still open, after the
\* interpreter closed the earlier connections of the process.
C24_Witness ==
    /\ pc["p1"] = "done"
    /\ op["p1"] = "save_todo_snapshot"
    /\ conns["p1"] = {InUse}
    /\ Len(todo_snapshots) = 1
    /\ lock = "none"

\* The step is ContextStorage(db_path), from the call to the end of _init_db.
Constructs ==
    /\ pc[Caller] \in {"start", "idle"}
    /\ pc'[Caller] = "done"
    /\ op'[Caller] = "__init__"

\* The database file as the state holds it.
File == [schema |-> schema, contexts |-> contexts, todo_snapshots |-> todo_snapshots]

\* C25: initialization is idempotent.  Constructing the engine leaves every
\* stored entry and snapshot as it was, on a new file and on an existing
\* store; the schema afterwards is the same whether the file was new or held
\* the schema already, and one more run of the initialization would change
\* nothing.
C25_InitIsIdempotent ==
    [][Constructs =>
          /\ contexts' = contexts
          /\ todo_snapshots' = todo_snapshots
          /\ schema' = Schema
          /\ init_db(File') = File'
      ]_vars

\* The engine was constructed on a store that holds two entries and a
\* snapshot.
C25_Witness ==
    /\ Opened
    /\ Len(contexts) = 2
    /\ Len(todo_snapshots) = 1
    /\ schema = Schema

\* The records the unfiltered listing of a table returns when its limit is
\* beyond the table.
AllContexts(table) ==
    Records(list_contexts(table, NULL, NULL, ReadLimit, 0, scan_rev))
AllSnapshots(table) ==
    Records(list_todo_snapshots(table, NULL, ReadLimit, 0, scan_rev))
CountContexts(table) ==
    Len(list_contexts(table, NULL, NULL, ReadLimit, 0, scan_rev).v)
CountSnapshots(table) ==
    Len(list_todo_snapshots(table, NULL, ReadLimit, 0, scan_rev).v)

Listed(records, id) == \E x \in records : x.id = id
Bit(b) == IF b THEN 1 ELSE 0

\* C26: the listing counts the distinct ids saved and not deleted.  The
\* listing of the empty store is empty; the save of a record whose id is not
\* listed makes the listing one longer and the save of a listed id leaves its
\* length; the delete of a listed id makes it one shorter; no other step
\* changes it.  So after n saves of pairwise distinct ids into an empty store
\* list_contexts with a limit of at least n returns n entries; the same for
\* list_todo_snapshots, whatever is_active and project_path of the
\* snapshots.
C26_ListingCountsDistinctIds ==
    /\ CountContexts(<<>>) = 0
    /\ CountSnapshots(<<>>) = 0
    /\ [][/\ Did("save_context") =>
               CountContexts(contexts') = CountContexts(contexts)
                   + Bit(~Listed(AllContexts(contexts), arg'[Caller].id))
          /\ Did("delete_context") =>
               CountContexts(contexts') = CountContexts(contexts)
                   - Bit(Listed(AllContexts(contexts), arg'[Caller]))
          /\ ~(Did("save_context") \/ Did("delete_context")) =>
               contexts' = contexts
          /\ Did("save_todo_snapshot") =>
               CountSnapshots(todo_snapshots') = CountSnapshots(todo_snapshots)
                   + Bit(~Listed(AllSnapshots(todo_snapshots), arg'[Caller].id))
          /\ Did("delete_todo_snapshot") =>
               CountSnapshots(todo_snapshots') = CountSnapshots(todo_snapshots)
                   - Bit(Listed(AllSnapshots(todo_snapshots), arg'[Caller]))
          /\ ~(Did("save_todo_snapshot") \/ Did("delete_todo_snapshot")) =>
               todo_snapshots' = todo_snapshots
         ]_vars

\* The listing returned the two stored snapshots, one active and one not, of
\* different projects.
C26_Witness ==
    /\ pc[Caller] = "done"
    /\ op[Caller] = "list_todo_snapshots"
    /\ arg[Caller].limit = 2
    /\ Len(ret[Caller].v) = 2
    /\ ret[Caller].v[1].is_active # ret[Caller].v[2].is_active
    /\ ret[Caller].v[1].project_path # ret[Caller].v[2].project_path

SearchedSnapshots == pc[Caller] = "done" /\ op[Caller] = "search_todo_snapshots"

StoredSnapshots == Records(RowsToSnapshots(todo_snapshots))

\* The snapshot has a todo whose content contains q, or its context does.
Mentions(s, q) ==
    \/ \E i \in 1..Len(s.todos) : Contains(q, s.todos[i].content)
    \/ Contains(q, s.context)

\* The stored snapshots a search for q in a project is to return.
Mentioning(q, project_path) ==
    {s \in StoredSnapshots :
        /\ project_path # NULL => s.project_path = project_path
        /\ Mentions(s, q)}

\* The search returned every snapshot it is to return, or as many as its limit.
FoundAll ==
    /\ ret[Caller].ok
    /\ \/ Len(ret[Caller].v) = arg[Caller].limit
       \/ Mentioning(arg[Caller].query, arg[Caller].project_path)
              \subseteq Records(ret[Caller])

\* C27: search_todo_snapshots(q) returns, up to its limit and within the
\* project given, every stored snapshot one of whose todos has q in its
\* content or whose context has q in it, for every text q and every todo
\* content, quotes and backslashes included.
C27_SearchFindsEveryMention == SearchedSnapshots => FoundAll

\* The same for the texts without a quote or a backslash.
C27_FindsPlainMentions ==
    (/\ SearchedSnapshots
     /\ \A k \in 1..Len(arg[Caller].query) :
           arg[Caller].query[k] \notin {"\"", "\\"}) => FoundAll

\* The search for the whole content of a stored todo, which holds a quote and
\* a backslash, returned nothing.
C27_Witness ==
    /\ SearchedSnapshots
    /\ arg[Caller].query = TodoQ.content
    /\ arg[Caller].project_path = NULL
    /\ ret[Caller] = Ok(<<>>)
    /\ \E s \in StoredSnapshots : TodoQ \in {s.todos[i] : i \in 1..Len(s.todos)}

AtApiCall == pc[Caller] = "ask_call"

\* The process has no transaction, no lock and no connection in use.
HoldsNothing(p) == lock # p /\ cache[p] = <<>> /\ InUse \notin conns[p]

Asking == op[Caller] \in AskTools

\* C28: in ask_chatgpt and ask_claude, server tool and CLI command, the call
\* of the external API comes after the read of the entry has finished and
\* before the write of the response begins: when the call is made the process
\* has read the entry and holds no transaction and no lock; the step that
\* leads to the call is the read, which writes nothing; the call itself
\* touches nothing of the store; the write begins only after the call has
\* returned a response and the table changes only at its commit.
C28_ApiCallBetweenReadAndWrite ==
    /\ [](AtApiCall =>
             /\ HoldsNothing(Caller)
             /\ Len(arg[Caller].context) = 1
             /\ arg[Caller].context[1].id = arg[Caller].context_id)
    /\ [][(AtApiCall' /\ ~AtApiCall) =>
             /\ pc[Caller] = "idle"
             /\ arg'[Caller].context = get_context(contexts, arg'[Caller].context_id).v
             /\ UNCHANGED <<contexts, lock, cache>>]_vars
    /\ [][(AtApiCall /\ ~AtApiCall') =>
             UNCHANGED <<contexts, lock, cache, conns, journal>>]_vars
    /\ [][(pc'[Caller] = "ask_store" /\ pc[Caller] # "ask_store") =>
             AtApiCall /\ ret'[Caller].ok]_vars
    /\ [][(Asking /\ lock' = Caller /\ lock # Caller) =>
             pc[Caller] = "ask_store"]_vars
    /\ [][(Asking /\ contexts' # contexts) => pc[Caller] = "ask_commit"]_vars

\* The call of the API is made while another process holds the write lock.
C28_Witness ==
    /\ AtApiCall
    /\ op[Caller] = AskClaude
    /\ arg[Caller].frontend = Server
    /\ lock = Other
    /\ conns[Caller] = {LeftOpen}

\* The two tables agree but for the one response column of the row of the id.
SameButResponse(before, after, tool, id) ==
    /\ Len(after) = Len(before)
    /\ \A i \in 1..Len(before) :
          IF before[i].id = id
          THEN after[i] =
                  IF tool = AskChatgpt
                  THEN [before[i] EXCEPT !.chatgpt_response = after[i].chatgpt_response]
                  ELSE [before[i] EXCEPT !.claude_response = after[i].claude_response]
          ELSE after[i] = before[i]

Given(question) == question # NULL /\ question # <<>>

\* C29: ask_chatgpt and ask_claude store the response only when no question is
\* given (None or the empty string): a call with a question never changes the
\* contexts table, a call changes it only after the client has returned a
\* response, and what it changes is the response column of its tool in the
\* row of its context id, set to that response; every other column and
\* every other row stay as they are, as does the todo_snapshots table.
C29_StoresOnlyWithoutQuestion ==
    /\ [][(Asking /\ Given(arg[Caller].question)) => contexts' = contexts]_vars
    /\ [][(Asking /\ contexts' # contexts) =>
             /\ ~Given(arg[Caller].question)
             /\ ret[Caller].ok
             /\ SameButResponse(contexts, contexts', op[Caller],
                                arg[Caller].context_id)
             /\ \A i \in 1..Len(contexts') :
                   contexts'[i].id = arg[Caller].context_id =>
                      IF op[Caller] = AskChatgpt
                      THEN contexts'[i].chatgpt_response = ret[Caller].v
                      ELSE contexts'[i].claude_response = ret[Caller].v]_vars
    /\ [][(Asking /\ todo_snapshots' # todo_snapshots) =>
             pc[Other] = "commit" /\ pc'[Other] = "done"]_vars
    /\ [](pc[Caller] \in {"ask_store", "ask_commit"} =>
             ~Given(arg[Caller].question))

\* ask_claude without a question has stored the response in claude_response
\* of the entry, whose chatgpt_response is as it was read.
C29_Witness ==
    /\ pc[Caller] = "done"
    /\ op[Caller] = AskClaude
    /\ arg[Caller].question = <<>>
    /\ ret[Caller] = Ok(<<"u">>)
    /\ \E i \in 1..Len(contexts) :
          /\ contexts[i].id = arg[Caller].context_id
          /\ contexts[i].claude_response = <<"u">>
          /\ arg[Caller].context[1].claude_response = NULL
          /\ contexts[i].chatgpt_response = <<"r">>

SearchedByTool == pc[Caller] = "done" /\ op[Caller] = "context_search"

\* Every context of the response has the type the call supplied.
OfSuppliedType ==
    \A i \in 1..Len(ret[Caller].v.lines) :
       ret[Caller].v.lines[i].type = arg[Caller].type

\* C30: when the context_search tool is called with a type, every context of
\* its response has that type, whether the call has tags, a query or neither.
C30_TypeFiltersEverySearch ==
    (SearchedByTool /\ ret[Caller].ok /\ arg[Caller].type # NULL)
        => OfSuppliedType

\* The same for the calls without tags: by query or by neither.
C30_TypeFiltersWithoutTags ==
    (/\ SearchedByTool
     /\ ret[Caller].ok
     /\ arg[Caller].type # NULL
     /\ ~Truthy(arg[Caller].tags)) => OfSuppliedType

\* A search by the tag x for the type code has returned an entry of the type
\* error.
C30_Witness ==
    /\ SearchedByTool
    /\ ret[Caller].ok
    /\ Truthy(arg[Caller].tags)
    /\ arg[Caller].tags[1] = <<"x">>
    /\ arg[Caller].type = Code
    /\ \E i \in 1..Len(ret[Caller].v.lines) : ret[Caller].v.lines[i].type = Error

\* The stored rows of todo_snapshots that refer to the context id.
Referring(table, id) ==
    {r \in {table[i] : i \in 1..Len(table)} : r.session_context_id = id}

\* C31: session_context_id is a weak reference. save_todo_snapshot succeeds
\* and stores the snapshot's session_context_id as given, also when no stored
\* context has that id; delete_context of a context that snapshots refer to
\* succeeds, returns whether the context was stored, removes it and leaves the
\* todo_snapshots table, the referring rows and their session_context_id
\* included, as it was.
C31_WeakReference ==
    /\ [][Did("save_todo_snapshot") =>
             /\ ret'[Caller] = Ok(NULL)
             /\ \E i \in 1..Len(todo_snapshots') :
                   todo_snapshots'[i] = SnapshotRow(arg'[Caller])
             /\ contexts' = contexts]_vars
    /\ [][Did("delete_context") =>
             /\ ret'[Caller] = Ok(arg'[Caller] \in Ids(contexts))
             /\ arg'[Caller] \notin Ids(contexts')
             /\ todo_snapshots' = todo_snapshots
             /\ Referring(todo_snapshots', arg'[Caller])
                   = Referring(todo_snapshots, arg'[Caller])]_vars

\* delete_context has deleted a context that a stored snapshot refers to, and
\* a stored snapshot refers to a context that was never stored.
C31_Witness ==
    /\ pc[Caller] = "done"
    /\ op[Caller] = "delete_context"
    /\ ret[Caller] = Ok(TRUE)
    /\ Referring(todo_snapshots, arg[Caller]) # {}
    /\ arg[Caller] \notin Ids(contexts)
    /\ Referring(todo_snapshots, <<"c", "9">>) # {}

\* The row r is in the table after the save with nothing changed, or with
\* nothing but is_active changed when that is allowed.
KeptBySave(r, after, may_deactivate) ==
    \E j \in 1..Len(after) :
       /\ after[j].id = r.id
       /\ IF may_deactivate
          THEN after[j] = [r EXCEPT !.is_active = after[j].is_active]
          ELSE after[j] = r

\* C32: save_todo_snapshot(s) changes nothing outside its scope. Of the rows
\* with another id, those of another project_path are unchanged, is_active
\* included; those of s.project_path are unchanged but for is_active, and
\* unchanged altogether when s.is_active is false; no row but the one of s.id
\* appears or disappears, and the contexts table is unchanged.
C32_SaveChangesOnlyItsScope ==
    [][Did("save_todo_snapshot") =>
          /\ contexts' = contexts
          /\ Ids(todo_snapshots') = Ids(todo_snapshots) \cup {arg'[Caller].id}
          /\ Len(todo_snapshots') = Cardinality(Ids(todo_snapshots'))
          /\ \A i \in 1..Len(todo_snapshots) :
                todo_snapshots[i].id # arg'[Caller].id =>
                   KeptBySave(todo_snapshots[i], todo_snapshots',
                              /\ arg'[Caller].is_active
                              /\ todo_snapshots[i].project_path
                                    = arg'[Caller].project_path)]_vars

\* An active snapshot was saved beside a stored context, an active snapshot of
\* another project and a snapshot of its own project.
C32_Witness ==
    /\ pc[Caller] = "done"
    /\ op[Caller] = "save_todo_snapshot"
    /\ arg[Caller].is_active
    /\ contexts # <<>>
    /\ \E i, j \in 1..Len(todo_snapshots) :
          /\ todo_snapshots[i].id # arg[Caller].id
          /\ todo_snapshots[i].project_path # arg[Caller].project_path
          /\ todo_snapshots[i].is_active = 1
          /\ todo_snapshots[j].id # arg[Caller].id
          /\ todo_snapshots[j].project_path = arg[Caller].project_path
          /\ todo_snapshots[j].is_active = 0

\* The active save of p fails after its UPDATE.
SaveFails(p) ==
    pc[p] = "save_insert" /\ pc'[p] = "done" /\ ~ret'[p].ok

\* p dies in its transaction.
Dies(p) == pc[p] \in {"save_insert", "commit"} /\ pc'[p] = "crashed"

\* The active rows of a table.
ActiveIn(table) == {r \in {table[i] : i \in 1..Len(table)} : r.is_active = 1}

\* C33: an active save_todo_snapshot that fails after its deactivation step
\* leaves the store as it was before the call. When the INSERT raises, while
\* serializing or in SQLite, the table is the one the transaction began on,
\* the lock is free and no journal is left. When the process dies before its
\* commit has ended, the journal holds the table the transaction began on,
\* nothing reads or writes the file before the journal is played back, and
\* the playback restores that table: in both cases the snapshot that was
\* active is active.
C33_FailedSaveIsRolledBack ==
    /\ [][\A p \in Procs : SaveFails(p) =>
             /\ arg[p].is_active
             /\ todo_snapshots' = journal.todo
             /\ todo_snapshots' = todo_snapshots
             /\ ActiveIn(todo_snapshots') = ActiveIn(journal.todo)
             /\ lock' = "none"
             /\ journal' = NoJournal
             /\ cache'[p] = <<>>]_vars
    /\ [][\A p \in Procs : Dies(p) =>
             /\ journal'.hot
             /\ journal'.todo = todo_snapshots
             /\ lock' = "none"]_vars
    /\ [][HotJournal =>
             \/ /\ journal' = NoJournal
                /\ todo_snapshots' = journal.todo
                /\ ActiveIn(todo_snapshots') = ActiveIn(journal.todo)
             \/ /\ journal' = journal
                /\ todo_snapshots' = todo_snapshots
                /\ \A p \in Procs : pc[p] = "idle" => pc'[p] # "done"]_vars

\* The save of an active snapshot has failed after its UPDATE and the other
\* snapshot of the project is active as before.
C33_Witness ==
    /\ pc[Caller] = "done"
    /\ op[Caller] = "save_todo_snapshot"
    /\ arg[Caller].is_active
    /\ ret[Caller] = IntegrityError
    /\ lock = "none"
    /\ \E r \in ActiveIn(todo_snapshots) :
          r.id # arg[Caller].id /\ r.project_path = arg[Caller].project_path

\* The rows of a table that belong to a project.
RowsOf(table, project_path) ==
    {r \in {table[i] : i \in 1..Len(table)} : r.project_path = project_path}

\* The step commits the call `name` of the process p.
Commits(p, name) ==
    pc[p] = "commit" /\ pc'[p] = "done" /\ op[p] = name

\* C34: deleting a snapshot promotes no other. The commit of
\* delete_todo_snapshot removes the row of its id and leaves every other row,
\* is_active included; a project with no active row has get_active_todo_snapshot
\* answer not-found, and it gets an active row only at the commit of a
\* save_todo_snapshot of an active snapshot of that project; a stored inactive
\* row becomes active only at the commit of an active save of its own id.
C34_DeletePromotesNothing ==
    /\ [][\A p \in Procs : Commits(p, "delete_todo_snapshot") =>
             /\ todo_snapshots' = DeleteById(todo_snapshots, arg[p])
             /\ ActiveIn(todo_snapshots') \subseteq ActiveIn(todo_snapshots)
             /\ \A r \in ActiveIn(todo_snapshots) :
                   r.id = arg[p] =>
                      ActiveIn(todo_snapshots') \cap
                         RowsOf(todo_snapshots', r.project_path) = {}]_vars
    /\ [](\A project_path \in Projects :
             ActiveIn(todo_snapshots) \cap RowsOf(todo_snapshots, project_path) = {}
                => get_active_todo_snapshot(todo_snapshots, project_path) = Ok(<<>>))
    /\ [][\A project_path \in Projects :
             (/\ ActiveIn(todo_snapshots) \cap RowsOf(todo_snapshots, project_path) = {}
              /\ ActiveIn(todo_snapshots') \cap RowsOf(todo_snapshots', project_path) # {})
                => \E p \in Procs :
                      /\ Commits(p, "save_todo_snapshot")
                      /\ arg[p].is_active
                      /\ arg[p].project_path = project_path]_vars
    /\ [][\A i \in 1..Len(todo_snapshots), j \in 1..Len(todo_snapshots') :
             (/\ todo_snapshots[i].id = todo_snapshots'[j].id
              /\ todo_snapshots[i].is_active = 0
              /\ todo_snapshots'[j].is_active = 1)
                => \E p \in Procs :
                      /\ Commits(p, "save_todo_snapshot")
                      /\ arg[p].is_active
                      /\ arg[p].id = todo_snapshots[i].id]_vars

\* One process has read a snapshot that was active, the other has then deleted
\* it: a snapshot of its project is left, and none of the project is active.
C34_Witness ==
    /\ pc["p1"] = "done" /\ op["p1"] = "get_todo_snapshot"
    /\ Len(ret["p1"].v) = 1
    /\ ret["p1"].v[1].is_active
    /\ pc["p2"] = "done" /\ op["p2"] = "delete_todo_snapshot"
    /\ arg["p2"] = arg["p1"]
    /\ ret["p2"] = Ok(TRUE)
    /\ RowsOf(todo_snapshots, ret["p1"].v[1].project_path) # {}
    /\ ActiveIn(todo_snapshots)
          \cap RowsOf(todo_snapshots, ret["p1"].v[1].project_path) = {}

\* The process has committed its update and has not gone on.
Updated(p) == pc[p] = "done" /\ ret[p] = Ok(NULL)

\* The stored rows of the id the process updates.
RowsUpdated(p) == SelectById(contexts, arg[p].id)

\* C35: update_chatgpt_response(id, a) in one process and
\* update_claude_response(id, b) in another, in every interleaving: each call
\* ends with success or with the busy error; the commit of either changes its
\* own column of the row of its id and nothing else; while a process has
\* committed and not gone on its column holds its response, so that with both
\* committed on one id the entry has chatgpt_response = a and
\* claude_response = b.
C35_ConcurrentUpdatesKeepBoth ==
    /\ [](\A p \in Procs :
             pc[p] = "done" => ret[p] = Ok(NULL) \/ ret[p] = DatabaseIsLocked)
    /\ [][\A p \in Procs :
             (pc[p] = "update_commit" /\ pc'[p] = "done") =>
                SameButResponse(contexts, contexts',
                                IF op[p] = UpdateChatgpt THEN AskChatgpt ELSE AskClaude,
                                arg[p].id)]_vars
    /\ [][\A p \in Procs :
             (pc[p] = "update_begin" /\ pc'[p] = "done") =>
                contexts' = contexts /\ ret'[p] = DatabaseIsLocked]_vars
    /\ []((Updated(Caller) /\ Updated(Other) /\ arg[Caller].id = arg[Other].id) =>
             \A i \in 1..Len(RowsUpdated(Caller)) :
                /\ RowsUpdated(Caller)[i].chatgpt_response = arg[Caller].response
                /\ RowsUpdated(Caller)[i].claude_response = arg[Other].response)

\* Both processes have committed on the entry c1, which holds the response of
\* each in its column.
C35_Witness ==
    /\ Updated(Caller) /\ Updated(Other)
    /\ arg[Caller].id = <<"c", "1">>
    /\ arg[Other].id = <<"c", "1">>
    /\ arg[Caller].response = <<"u">>
    /\ arg[Other].response = <<"v">>
    /\ RowsUpdated(Caller) # <<>>
    /\ RowsUpdated(Caller)[1].chatgpt_response = <<"u">>
    /\ RowsUpdated(Caller)[1].claude_response = <<"v">>

\* The step commits the response write of the flow.
CommitsResponse == pc[Caller] = "ask_commit" /\ pc'[Caller] = "done"

\* The entry of the flow is not stored.
EntryGone == arg[Caller].context_id \notin Ids(contexts)

\* C36: when another process has deleted the entry between the read and the
\* response write of ask_chatgpt or ask_claude, the write changes nothing:
\* its commit creates no row, the id stays not-found for get_context, and the
\* call ends with the response of the model as its result.
C36_WriteAfterDeleteIsNoOp ==
    /\ [][CommitsResponse =>
             /\ Ids(contexts') = Ids(contexts)
             /\ ret'[Caller] = ret[Caller]
             /\ ret'[Caller].ok
             /\ EntryGone =>
                   /\ contexts' = contexts
                   /\ get_context(contexts', arg[Caller].context_id) = Ok(<<>>)]_vars
    /\ []((pc[Caller] = "ask_commit" /\ EntryGone) => cache[Caller] = contexts)

\* The other process has deleted the entry the flow had read; the flow's
\* UPDATE has run on the table without it and waits for its commit.
C36_Witness ==
    /\ pc[Caller] = "ask_commit"
    /\ op[Caller] = AskClaude
    /\ ret[Caller] = Ok(<<"u">>)
    /\ Len(arg[Caller].context) = 1
    /\ EntryGone
    /\ contexts # <<>>
    /\ pc[Other] = "done"
    /\ op[Other] = "delete_context"
    /\ arg[Other] = arg[Caller].context_id
    /\ ret[Other].v

====
